---------------------------- MODULE Spec2Model ----------------------------
(***************************************************************************)
(* A model of SerpAPI.py: build_gf_urls compiles a SerpApi-style flight    *)
(* search request into Google Flights links, a coverage report per link,   *)
(* a global list of unmatched parameters and a SerpApi fallback mapping.   *)
(*                                                                         *)
(* Python values are modelled as tagged records, so that None, "", [], 0   *)
(* and False stay different values that can be compared with each other:   *)
(*   None -> [none |-> TRUE]      str  -> [str |-> <<characters>>]         *)
(*   int  -> [int |-> n]          bool -> [bool |-> b]                     *)
(*   list -> [list |-> <<...>>]   tuple -> [tuple |-> <<...>>]             *)
(* A Python string is the sequence of its characters.                      *)
(***************************************************************************)
EXTENDS Integers, Sequences, FiniteSets, TLC

(***************************************************************************)
(* Bounds of the model.                                                    *)
(***************************************************************************)
\* Number of calls of build_gf_urls made one after the other.
MaxCalls == 2
\* Largest number of comma-separated items in departure_id / arrival_id.
MaxItems == 2
\* Largest number of legs in a multi_city_json array.
MaxLegs == 3
\* The largest number of comma-separated items of a time-window text.
MaxWindowItems == 5
\* The largest number of legs handed to gfurl.build_gf_url.
MaxGfLegs == 2

(***************************************************************************)
(* Python values.                                                          *)
(***************************************************************************)
PyNone == [none |-> TRUE]
PyStr(s) == [str |-> s]
PyInt(n) == [int |-> n]
PyBool(b) == [bool |-> b]
PyList(l) == [list |-> l]
PyTuple(t) == [tuple |-> t]

IsStr(v) == DOMAIN v = {"str"}
IsInt(v) == DOMAIN v = {"int"}
IsBool(v) == DOMAIN v = {"bool"}
IsList(v) == DOMAIN v = {"list"}
IsTuple(v) == DOMAIN v = {"tuple"}

\* Python truth value of v (bool(v)).
Truthy(v) ==
  CASE v = PyNone -> FALSE
    [] IsStr(v) -> v.str # << >>
    [] IsInt(v) -> v.int # 0
    [] IsBool(v) -> v.bool
    [] IsList(v) -> v.list # << >>
    [] IsTuple(v) -> v.tuple # << >>
    [] OTHER -> TRUE

\* Python's == between two values: bool is a subclass of int (True == 1,
\* False == 0), a str never equals a list, None equals only None.
PyEq(a, b) ==
  LET num(v) == IF IsBool(v) THEN PyInt(IF v.bool THEN 1 ELSE 0) ELSE v
  IN  num(a) = num(b)

Range(s) == {s[i] : i \in DOMAIN s}

(***************************************************************************)
(* Characters and strings.                                                 *)
(***************************************************************************)
UpperChars == {"A","B","C","D","E","F","G","H","I","J","K","L","M",
               "N","O","P","Q","R","S","T","U","V","W","X","Y","Z"}
LowerChars == {"a","b","c","d","e","f","g","h","i","j","k","l","m",
               "n","o","p","q","r","s","t","u","v","w","x","y","z"}
DigitChars == {"0","1","2","3","4","5","6","7","8","9"}
\* Characters str.strip() removes.
SpaceChars == {" ", "\t", "\n", "\r"}

DigitVal(c) ==
  CASE c = "0" -> 0 [] c = "1" -> 1 [] c = "2" -> 2 [] c = "3" -> 3
    [] c = "4" -> 4 [] c = "5" -> 5 [] c = "6" -> 6 [] c = "7" -> 7
    [] c = "8" -> 8 [] c = "9" -> 9

\* str.strip(): leading and trailing whitespace removed.
RECURSIVE LStrip(_)
LStrip(s) == IF s # << >> /\ Head(s) \in SpaceChars THEN LStrip(Tail(s)) ELSE s
RECURSIVE RStrip(_)
RStrip(s) ==
  IF s # << >> /\ s[Len(s)] \in SpaceChars
  THEN RStrip(SubSeq(s, 1, Len(s) - 1)) ELSE s
Strip(s) == RStrip(LStrip(s))

\* str.split(","): the pieces between commas; always at least one piece.
RECURSIVE SplitFrom(_, _, _)
SplitFrom(s, i, cur) ==
  IF i > Len(s) THEN <<cur>>
  ELSE IF s[i] = "," THEN <<cur>> \o SplitFrom(s, i + 1, << >>)
  ELSE SplitFrom(s, i + 1, Append(cur, s[i]))
SplitComma(s) == SplitFrom(s, 1, << >>)

\* ",".join(parts)
RECURSIVE JoinComma(_)
JoinComma(parts) ==
  IF parts = << >> THEN << >>
  ELSE IF Len(parts) = 1 THEN parts[1]
  ELSE parts[1] \o <<",">> \o JoinComma(Tail(parts))

(***************************************************************************)
(* Helpers & validation (Request Normalizer).                              *)
(***************************************************************************)
\* re "$": the end of the string, or just before a final newline.
AtDollar(s, i) == i = Len(s) + 1 \/ (i = Len(s) /\ s[i] = "\n")

\* _IATA_RE = ^[A-Z0-9]{3}$
IATA_RE(s) ==
  /\ Len(s) >= 3
  /\ \A i \in 1..3 : s[i] \in UpperChars \cup DigitChars
  /\ AtDollar(s, 4)

\* _KGMID_RE = ^/m/[A-Za-z0-9_]+$
KGMID_RE(s) ==
  /\ Len(s) >= 4
  /\ s[1] = "/" /\ s[2] = "m" /\ s[3] = "/"
  /\ \E e \in 5..(Len(s) + 1) :
       /\ \A i \in 4..(e - 1) :
            s[i] \in UpperChars \cup LowerChars \cup DigitChars \cup {"_"}
       /\ AtDollar(s, e)

_is_airport_or_place(s) == IATA_RE(s) \/ KGMID_RE(s)

\* _validate_airport_or_place: TRUE when it raises ValueError.
ValidateAirportOrPlaceRaises(code) == ~ _is_airport_or_place(code.str)

IsLeap(y) == (y % 4 = 0 /\ y % 100 # 0) \/ y % 400 = 0
DaysInMonth(y, m) ==
  IF m = 2 THEN (IF IsLeap(y) THEN 29 ELSE 28)
  ELSE IF m \in {4, 6, 9, 11} THEN 30 ELSE 31

\* date.fromisoformat on the form YYYY-MM-DD (the form every Python 3
\* version accepts): TRUE when the text is a date of the calendar.
FromIsoFormatOk(s) ==
  /\ Len(s) = 10
  /\ s[5] = "-" /\ s[8] = "-"
  /\ \A i \in {1, 2, 3, 4, 6, 7, 9, 10} : s[i] \in DigitChars
  /\ LET y == 1000 * DigitVal(s[1]) + 100 * DigitVal(s[2])
              + 10 * DigitVal(s[3]) + DigitVal(s[4])
         m == 10 * DigitVal(s[6]) + DigitVal(s[7])
         d == 10 * DigitVal(s[9]) + DigitVal(s[10])
     IN  /\ y >= 1
         /\ m \in 1..12
         /\ d >= 1 /\ d <= DaysInMonth(y, m)

\* _validate_iso_date: TRUE when it raises ValueError (a value that is not
\* a str makes fromisoformat raise TypeError, which is turned into
\* ValueError as well).
ValidateIsoDateRaises(iso) == ~ (IsStr(iso) /\ FromIsoFormatOk(iso.str))

\* _csv_to_list: the trimmed, non-empty items, in order.
_csv_to_list(s) ==
  IF ~Truthy(s) THEN << >>
  ELSE LET parts == SplitComma(s.str)
           stripped == [i \in 1..Len(parts) |-> Strip(parts[i])]
       IN  SelectSeq(stripped, LAMBDA p : p # << >>)

\* int(text) for a decimal literal with an optional sign: ok is FALSE when
\* int raises ValueError.
RECURSIVE DigitsVal(_)
DigitsVal(ds) ==
  IF ds = << >> THEN 0
  ELSE 10 * DigitsVal(SubSeq(ds, 1, Len(ds) - 1)) + DigitVal(ds[Len(ds)])
ParseInt(text) ==
  LET t == Strip(text)
      signed == t # << >> /\ t[1] \in {"+", "-"}
      ds == IF signed THEN Tail(t) ELSE t
      ok == ds # << >> /\ \A i \in 1..Len(ds) : ds[i] \in DigitChars
  IN  [ok |-> ok,
       val |-> IF ~ok THEN 0
               ELSE IF signed /\ t[1] = "-" THEN 0 - DigitsVal(ds)
               ELSE DigitsVal(ds)]

\* A mutant of _parse_time_window: three items are read as one window.
ParseTimeWindowThreeAsTwo(win) ==
  IF ~Truthy(win) THEN <<PyNone, PyNone>>
  ELSE LET parts == SplitComma(win.str)
           ints == [i \in 1..Len(parts) |-> ParseInt(parts[i])]
       IN  IF \E i \in 1..Len(ints) : ~ints[i].ok THEN <<PyNone, PyNone>>
           ELSE IF Len(ints) \in {2, 3}
             THEN <<PyTuple(<<ints[1].val, ints[2].val>>), PyNone>>
           ELSE IF Len(ints) = 4
             THEN <<PyTuple(<<ints[1].val, ints[2].val>>),
                    PyTuple(<<ints[3].val, ints[4].val>>)>>
           ELSE <<PyNone, PyNone>>

\* _parse_time_window: <<first window, second window>>, each a tuple or None.
_parse_time_window(win) ==
  IF ~Truthy(win) THEN <<PyNone, PyNone>>
  ELSE LET parts == SplitComma(win.str)
           ints == [i \in 1..Len(parts) |-> ParseInt(parts[i])]
       IN  IF \E i \in 1..Len(ints) : ~ints[i].ok THEN <<PyNone, PyNone>>
           ELSE IF Len(ints) = 2
             THEN <<PyTuple(<<ints[1].val, ints[2].val>>), PyNone>>
           ELSE IF Len(ints) = 4
             THEN <<PyTuple(<<ints[1].val, ints[2].val>>),
                    PyTuple(<<ints[3].val, ints[4].val>>)>>
           ELSE <<PyNone, PyNone>>

(***************************************************************************)
(* SerpApi enumerations -> local.                                          *)
(***************************************************************************)
Ch1 == <<"1">>
Ch2 == <<"2">>
Ch3 == <<"3">>
Ch4 == <<"4">>
Ch0 == <<"0">>

\* _TRAVEL_CLASS
TRAVEL_CLASS_KEYS == {PyStr(Ch1), PyStr(Ch2), PyStr(Ch3), PyStr(Ch4)}
TRAVEL_CLASS(k) ==
  CASE k = PyStr(Ch1) -> "economy"
    [] k = PyStr(Ch2) -> "premium-economy"
    [] k = PyStr(Ch3) -> "business"
    [] k = PyStr(Ch4) -> "first"

\* _STOPS_MAP: "0" maps to None (any number of stops).
STOPS_MAP_KEYS == {PyStr(Ch0), PyStr(Ch1), PyStr(Ch2), PyStr(Ch3)}
STOPS_MAP(k) ==
  CASE k = PyStr(Ch0) -> PyNone
    [] k = PyStr(Ch1) -> PyInt(0)
    [] k = PyStr(Ch2) -> PyInt(1)
    [] k = PyStr(Ch3) -> PyInt(2)

(***************************************************************************)
(* Coverage and its entries.  An entry is the parameter name followed, in  *)
(* the code, by an annotation in brackets: name is the text before the     *)
(* annotation, note the kind of annotation and val the offending value the *)
(* annotation quotes ("travel_class (9)").                                 *)
(***************************************************************************)
NoteNone == "encoded"
NoteValue == "value"
NoteUnsupported == "not supported by installed fast-flights"
NotePerLeg == "per-leg windows unsupported; only outbound applied"
NoteNoUrl == "no URL equivalent"
NoteSerpOnly == "SerpApi-only"
NoteNavigation == "result-navigation, SerpApi-only"
NoteBooking == "booking step, SerpApi-only"
NoteMultiCity == "not supported by installed fast-flights; returned per-leg URLs"

Entry(name, note, val) == [name |-> name, note |-> note, val |-> val]
Plain(name) == Entry(name, NoteNone, PyNone)

\* Coverage(): three fresh, empty lists.
Coverage == [encoded |-> << >>, approximated |-> << >>, unmatched |-> << >>]

AddEncoded(cov, e) == [cov EXCEPT !.encoded = Append(@, e)]
AddApproximated(cov, e) == [cov EXCEPT !.approximated = Append(@, e)]
AddUnmatched(cov, e) == [cov EXCEPT !.unmatched = Append(@, e)]

(***************************************************************************)
(* The payload encoder (fast_flights), an external collaborator.  caps is  *)
(* the set of optional features the installed encoder understands; the     *)
(* required arguments and seat / max_stops are understood by every build.  *)
(* from_interface raises TypeError for a keyword it does not know and for  *)
(* a trip tag it does not know.                                            *)
(***************************************************************************)
BaseKeys == {"flight_data", "trip", "passengers", "seat", "max_stops"}
Features == {"include_airlines", "exclude_airlines", "dep_time_window",
             "arr_time_window", "per_leg_windows", "multi-city"}
FeatureOf(key) ==
  IF key \in {"dep_time_windows", "arr_time_windows"} THEN "per_leg_windows"
  ELSE key

FromInterfaceAccepts(kw, caps) ==
  /\ \A k \in (DOMAIN kw) \ BaseKeys : FeatureOf(k) \in caps
  /\ kw["trip"] = "multi-city" => "multi-city" \in caps

\* TFSData.from_interface(**kw).as_b64().decode(): the token is opaque; it
\* stands for the itinerary it was built from.  Its text is base64, which is
\* made of letters, digits, "+", "/" and "="; the text is not computed, and
\* TokenText has each kind of character base64 can produce.
TokenText == <<"C", "g", "+", "/", "0", "=">>
TfsToken(kw) == [tfs |-> kw, b64 |-> TokenText]

FlightData(date, from_airport, to_airport) ==
  [date |-> date, from_airport |-> from_airport, to_airport |-> to_airport]

Passengers(adults, children, infants_in_seat, infants_on_lap) ==
  [adults |-> adults, children |-> children,
   infants_in_seat |-> infants_in_seat, infants_on_lap |-> infants_on_lap]

Max(a, b) == IF a >= b THEN a ELSE b

(***************************************************************************)
(* _q: urllib.parse.quote_plus(v, safe="").                                *)
(***************************************************************************)
UnreservedChars == UpperChars \cup LowerChars \cup DigitChars \cup {"_", ".", "-", "~"}
PercentCode(c) ==
  CASE c = "/" -> <<"%", "2", "F">>
    [] c = "," -> <<"%", "2", "C">>
    [] c = "&" -> <<"%", "2", "6">>
    [] c = "=" -> <<"%", "3", "D">>
    [] c = "+" -> <<"%", "2", "B">>
    [] c = "%" -> <<"%", "2", "5">>
    [] c = "?" -> <<"%", "3", "F">>
    [] c = "#" -> <<"%", "2", "3">>
    [] c = "\n" -> <<"%", "0", "A">>
    [] c = "\t" -> <<"%", "0", "9">>
    [] c = "\r" -> <<"%", "0", "D">>
\* The text is quoted character by character; it is split in halves so
\* that a long text is not a deep recursion.
QuoteChar(c) ==
  IF c \in UnreservedChars THEN <<c>>
  ELSE IF c = " " THEN <<"+">>
  ELSE PercentCode(c)
RECURSIVE QuotePlus(_)
QuotePlus(s) ==
  IF s = << >> THEN << >>
  ELSE IF Len(s) = 1 THEN QuoteChar(s[1])
  ELSE QuotePlus(SubSeq(s, 1, Len(s) \div 2))
       \o QuotePlus(SubSeq(s, Len(s) \div 2 + 1, Len(s)))
\* A mutant of _q: the text is put in the URL as it is.
QuoteNothing(v) == v.str
_q(v) == QuotePlus(v.str)

BaseUrl == "https://www.google.com/travel/flights?"
\* The link URL: the base path and the four query parameters, in order.
MakeUrl(token, hl, gl, currency) ==
  [base |-> BaseUrl,
   query |-> << <<"tfs", [tfs |-> token.tfs, text |-> _q(PyStr(token.b64))]>>,
               <<"hl", _q(hl)>>, <<"gl", _q(gl)>>, <<"curr", _q(currency)>> >>]

LinkOut(url, coverage) == [url |-> url, coverage |-> coverage]
\* What _build_single_url hands back when it raises: nothing.
NoLink == [none |-> TRUE]

(***************************************************************************)
(* Core: build one Google Flights URL from one pair of (from, to).         *)
(***************************************************************************)
\* A mutant of _try_kw: a rejected keyword is recorded as unmatched and as
\* encoded.
TryKwRecordsBoth(st, key, value, caps) ==
  IF FromInterfaceAccepts((key :> value) @@ st.kw, caps)
  THEN [kw |-> (key :> value) @@ st.kw, cov |-> AddEncoded(st.cov, Plain(key))]
  ELSE [kw |-> st.kw,
        cov |-> AddEncoded(
                  AddUnmatched(st.cov, Entry(key, NoteUnsupported, PyNone)),
                  Plain(key))]

\* A mutant of _try_kw: an accepted keyword is recorded as encoded and then
\* left out of tfs_kwargs.
TryKwDropsAccepted(st, key, value, caps) ==
  IF FromInterfaceAccepts((key :> value) @@ st.kw, caps)
  THEN [kw |-> st.kw, cov |-> AddEncoded(st.cov, Plain(key))]
  ELSE [kw |-> st.kw,
        cov |-> AddUnmatched(st.cov, Entry(key, NoteUnsupported, PyNone))]

\* _try_kw inside _build_single_url: st holds tfs_kwargs (kw) and cov.  A
\* trial construction with the extra keyword; kept and recorded as encoded
\* when accepted, recorded as unmatched when from_interface raises TypeError.
_try_kw(st, key, value, caps) ==
  IF FromInterfaceAccepts((key :> value) @@ st.kw, caps)
  THEN [kw |-> (key :> value) @@ st.kw, cov |-> AddEncoded(st.cov, Plain(key))]
  ELSE [kw |-> st.kw,
        cov |-> AddUnmatched(st.cov, Entry(key, NoteUnsupported, PyNone))]

\* A mutant of SingleLegs: the return leg flies the same way as the outbound.
SingleLegsSameWay(dep, arr, outbound_date, return_date, round_trip) ==
  IF round_trip
  THEN <<FlightData(outbound_date, dep, arr), FlightData(return_date, dep, arr)>>
  ELSE <<FlightData(outbound_date, dep, arr)>>

\* The legs of one pair: the outbound leg and, for a round trip, the exact
\* inverse leg with the return date (lines 143-159).
SingleLegs(dep, arr, outbound_date, return_date, round_trip) ==
  IF round_trip
  THEN <<FlightData(outbound_date, dep, arr), FlightData(return_date, arr, dep)>>
  ELSE <<FlightData(outbound_date, dep, arr)>>

\* A mutant of IsRoundTrip: only the declared type 1 makes a round trip.
IsRoundTripDeclaredOnly(declared_type, return_date) == declared_type = PyStr(Ch1)

\* Trip type (lines 146-159): 1=Round, 2=One-way, 3=Multi.
IsRoundTrip(declared_type, return_date) ==
  /\ declared_type # PyStr(Ch2)
  /\ \/ declared_type = PyStr(Ch1)
     \/ (return_date # PyNone /\ declared_type = PyNone)

\* Seat / cabin and stops (lines 171-186): the keywords they add and the
\* coverage entries they record.
SeatAndStops(travel_class, stops) ==
  LET seatOk == Truthy(travel_class) /\ travel_class \in TRAVEL_CLASS_KEYS
      cov1 == IF seatOk THEN AddEncoded(Coverage, Plain("travel_class"))
              ELSE IF Truthy(travel_class)
                THEN AddUnmatched(Coverage,
                                  Entry("travel_class", NoteValue, travel_class))
              ELSE Coverage
      stopsOk == stops # PyNone /\ stops \in STOPS_MAP_KEYS
      cov2 == IF stopsOk THEN AddEncoded(cov1, Plain("stops"))
              ELSE IF stops # PyNone
                THEN AddUnmatched(cov1, Entry("stops", NoteValue, stops))
              ELSE cov1
  IN  [seat |-> IF seatOk THEN TRAVEL_CLASS(travel_class) ELSE "",
       max_stops |-> IF stopsOk THEN STOPS_MAP(stops) ELSE PyNone,
       cov |-> cov2]

\* A mutant of ReturnWindows: the paired arrays are passed on without the
\* trial construction, so a TypeError is not caught.
ReturnWindowsNoProbe(st, round_trip, dep0, arr0, dep1, arr1, caps) ==
  IF round_trip /\ (dep1 # PyNone \/ arr1 # PyNone)
  THEN [kw |-> ("dep_time_windows" :> <<dep0, dep1>>)
               @@ ("arr_time_windows" :> <<arr0, arr1>>) @@ st.kw,
        cov |-> AddEncoded(st.cov, Plain("dep_time_windows/arr_time_windows"))]
  ELSE st

\* The paired per-leg window probe for the return leg (lines 230-248).
ReturnWindows(st, round_trip, dep0, arr0, dep1, arr1, caps) ==
  IF round_trip /\ (dep1 # PyNone \/ arr1 # PyNone)
  THEN LET probe == ("dep_time_windows" :> <<dep0, dep1>>)
                    @@ ("arr_time_windows" :> <<arr0, arr1>>) @@ st.kw
       IN  IF FromInterfaceAccepts(probe, caps)
           THEN [kw |-> probe,
                 cov |-> AddEncoded(st.cov,
                                    Plain("dep_time_windows/arr_time_windows"))]
           ELSE [kw |-> st.kw,
                 cov |-> AddApproximated(st.cov,
                           Entry("return_times", NotePerLeg, PyNone))]
  ELSE st

\* tfs_kwargs and cov before the probes (lines 143-205).
BeforeProbes(a) ==
  LET round_trip == IsRoundTrip(a.type, a.return_date)
      ss == SeatAndStops(a.travel_class, a.stops)
      kw0 == [flight_data |-> SingleLegs(a.dep, a.arr, a.outbound_date,
                                         a.return_date, round_trip),
              trip |-> IF round_trip THEN "round-trip" ELSE "one-way",
              passengers |-> Passengers(Max(0, a.adults), Max(0, a.children),
                                        Max(0, a.infants_in_seat),
                                        Max(0, a.infants_on_lap))]
  IN  [kw |-> (IF ss.seat # "" THEN ("seat" :> ss.seat) ELSE << >>)
              @@ (IF ss.max_stops # PyNone THEN ("max_stops" :> ss.max_stops)
                  ELSE << >>)
              @@ kw0,
       cov |-> ss.cov]

\* The airline probes (lines 219-222).
ProbeAirlines(st, key, value, caps) ==
  IF value # << >> THEN _try_kw(st, key, value, caps) ELSE st

\* The single window probes (lines 226-229).
ProbeWindow(st, key, window, caps) ==
  IF Truthy(window) THEN _try_kw(st, key, window, caps) ELSE st

\* dep0, arr0 and dep1, arr1 (lines 191-192).
OutboundWindows(a) == _parse_time_window(a.outbound_times)
ReturnLegWindows(a) ==
  IF IsRoundTrip(a.type, a.return_date) THEN _parse_time_window(a.return_times)
  ELSE <<PyNone, PyNone>>

\* All probes, in the order of the code (lines 219-248).
AfterProbes(a, caps) ==
  ReturnWindows(
    ProbeWindow(
      ProbeWindow(
        ProbeAirlines(
          ProbeAirlines(BeforeProbes(a), "include_airlines",
                        a.include_airlines, caps),
          "exclude_airlines", a.exclude_airlines, caps),
        "dep_time_window", OutboundWindows(a)[1], caps),
      "arr_time_window", OutboundWindows(a)[2], caps),
    IsRoundTrip(a.type, a.return_date),
    OutboundWindows(a)[1], OutboundWindows(a)[2],
    ReturnLegWindows(a)[1], ReturnLegWindows(a)[2], caps)

\* Build the tfs payload and the link (lines 250-265).
BuildLink(a, st, caps) ==
  IF ~FromInterfaceAccepts(st.kw, caps)
  THEN [exc |-> "TypeError", err |-> "encoder", link |-> NoLink]
  ELSE [exc |-> "None", err |-> "",
        link |-> LinkOut(
          MakeUrl(TfsToken(st.kw), a.hl, a.gl, a.currency),
          [st.cov EXCEPT !.encoded =
             @ \o <<Plain("tfs"), Plain("hl"), Plain("gl"), Plain("currency")>>])]

\* _build_single_url.  a is the record of its keyword arguments.  The result
\* is [exc, err, link]: exc is "None" when it returns, else the exception
\* raised.
_build_single_url(a, caps) ==
  IF \/ ValidateAirportOrPlaceRaises(PyStr(a.dep))
     \/ ValidateAirportOrPlaceRaises(PyStr(a.arr))
  THEN [exc |-> "ValueError", err |-> "code", link |-> NoLink]
  ELSE IF \/ ValidateIsoDateRaises(a.outbound_date)
          \/ (Truthy(a.return_date) /\ ValidateIsoDateRaises(a.return_date))
  THEN [exc |-> "ValueError", err |-> "date", link |-> NoLink]
  ELSE BuildLink(a, AfterProbes(a, caps), caps)

(***************************************************************************)
(* Texts used as inputs.                                                   *)
(***************************************************************************)
SYD == <<"S", "Y", "D">>
CBR == <<"C", "B", "R">>
MEL == <<"M", "E", "L">>
BNE == <<"B", "N", "E">>
CBR_PADDED == <<" ", "C", "B", "R", " ">>
SYD_LOWER == <<"s", "y", "d">>
MELB == <<"M", "E", "L", "B">>
KGMID == <<"/", "m", "/", "0", "v", "z", "m">>
DATE_OUT == <<"2", "0", "2", "5", "-", "0", "8", "-", "1", "5">>
DATE_RET == <<"2", "0", "2", "5", "-", "0", "8", "-", "2", "0">>
DATE_THIRD == <<"2", "0", "2", "5", "-", "0", "8", "-", "2", "5">>
DATE_FEB30 == <<"2", "0", "2", "5", "-", "0", "2", "-", "3", "0">>
DATE_SLASHES == <<"1", "5", "/", "0", "8", "/", "2", "0", "2", "5">>
DATE_MONTH13 == <<"2", "0", "2", "5", "-", "1", "3", "-", "0", "1">>
AIRLINE_QF == <<"Q", "F">>
AIRLINES_JQ_VA == <<"J", "Q", ",", " ", "V", "A">>
WIN_6_18 == <<"6", ",", "1", "8">>
WIN_6_18_8_20 == <<"6", ",", "1", "8", ",", "8", ",", "2", "0">>
WIN_6_18_20 == <<"6", ",", "1", "8", ",", "2", "0">>
WIN_6_X == <<"6", ",", "x">>
WIN_9_21 == <<"9", ",", "2", "1">>
WIN_9_21_10_22 == <<"9", ",", "2", "1", ",", "1", "0", ",", "2", "2">>
CODE_9 == <<"9">>
CODE_7 == <<"7">>
LANG_EN == <<"e", "n">>
COUNTRY_US == <<"U", "S">>
CURRENCY_USD == <<"U", "S", "D">>
GOOGLE_FLIGHTS == <<"g", "o", "o", "g", "l", "e", "_", "f", "l", "i", "g", "h", "t", "s">>
LAYOVER_90_300 == <<"9", "0", ",", "3", "0", "0">>
CONNS_DFW_ORD == <<"D", "F", "W", ",", "O", "R", "D">>
TOKEN_ABC == <<"a", "b", "c">>

(***************************************************************************)
(* Utility: _serpapi_only_flags.  f is the record of its eleven arguments. *)
(***************************************************************************)
_serpapi_only_flags(f) ==
  (IF Truthy(f.deep_search)
     THEN <<Entry("deep_search", NoteSerpOnly, PyNone)>> ELSE << >>)
  \o (IF Truthy(f.show_hidden)
     THEN <<Entry("show_hidden", NoteSerpOnly, PyNone)>> ELSE << >>)
  \o (IF ~(PyEq(f.bags, PyNone) \/ PyEq(f.bags, PyInt(0)))
     THEN <<Entry("bags", NoteNoUrl, PyNone)>> ELSE << >>)
  \o (IF f.max_price # PyNone
     THEN <<Entry("max_price", NoteNoUrl, PyNone)>> ELSE << >>)
  \o (IF f.sort_by # PyNone
     THEN <<Entry("sort_by", NoteNoUrl, PyNone)>> ELSE << >>)
  \o (IF f.emissions # PyNone
     THEN <<Entry("emissions", NoteNoUrl, PyNone)>> ELSE << >>)
  \o (IF Truthy(f.layover_duration)
     THEN <<Entry("layover_duration", NoteNoUrl, PyNone)>> ELSE << >>)
  \o (IF Truthy(f.exclude_conns)
     THEN <<Entry("exclude_conns", NoteNoUrl, PyNone)>> ELSE << >>)
  \o (IF f.max_duration # PyNone
     THEN <<Entry("max_duration", NoteNoUrl, PyNone)>> ELSE << >>)
  \o (IF Truthy(f.departure_token)
     THEN <<Entry("departure_token", NoteNavigation, PyNone)>> ELSE << >>)
  \o (IF Truthy(f.booking_token)
     THEN <<Entry("booking_token", NoteBooking, PyNone)>> ELSE << >>)

(***************************************************************************)
(* sorted(set(entries)) of the global unmatched list.  The entries are     *)
(* Python strings that start with the parameter name; NameOrder lists the  *)
(* names in the order Python's string comparison gives them.               *)
(***************************************************************************)
NameOrder ==
  <<"bags", "booking_token", "deep_search", "departure_token", "emissions",
    "exclude_airlines", "exclude_conns", "include_airlines",
    "layover_duration", "max_duration", "max_price", "multi-city",
    "show_hidden", "sort_by">>
NameRank(name) == CHOOSE i \in 1..Len(NameOrder) : NameOrder[i] = name
EntryLess(e1, e2) == NameRank(e1.name) < NameRank(e2.name)

RECURSIVE SortedOfSet(_)
SortedOfSet(S) ==
  IF S = {} THEN << >>
  ELSE LET m == CHOOSE e \in S : \A o \in S \ {e} : EntryLess(e, o)
       IN  <<m>> \o SortedOfSet(S \ {m})
\* A mutant of SortedSet: the list is returned as it was built.
SortedSetAsBuilt(entries) == entries
SortedSet(entries) == SortedOfSet(Range(entries))

(***************************************************************************)
(* SerpApi payload builder (Fallback Projector).                           *)
(***************************************************************************)
\* Accepted SerpApi keys.
Allowed ==
  {"engine", "departure_id", "arrival_id", "outbound_date", "return_date",
   "hl", "gl", "currency", "type", "travel_class", "adults", "children",
   "infants_in_seat", "infants_on_lap", "stops", "include_airlines",
   "exclude_airlines", "bags", "max_price", "sort_by", "emissions",
   "layover_duration", "exclude_conns", "max_duration", "outbound_times",
   "return_times", "multi_city_json", "departure_token", "booking_token",
   "deep_search", "show_hidden", "no_cache", "async", "zero_trace",
   "api_key", "output", "json_restrictor"}

\* A mutant of InNoneEmpty: every falsy value counts as empty.
InNoneEmptyFalsy(v) == ~Truthy(v)

\* v in (None, "", [])
InNoneEmpty(v) ==
  PyEq(v, PyNone) \/ PyEq(v, PyStr(<< >>)) \/ PyEq(v, PyList(<< >>))

\* build_serpapi_params(**kwargs): kwargs is a function from names to values.
build_serpapi_params(kwargs) ==
  LET kept == {k \in DOMAIN kwargs : k \in Allowed /\ ~InNoneEmpty(kwargs[k])}
      result == [k \in kept |->
                   IF k \in {"include_airlines", "exclude_airlines"}
                      /\ IsList(kwargs[k])
                   THEN PyStr(JoinComma(kwargs[k].list))
                   ELSE kwargs[k]]
  IN  IF "engine" \in kept THEN result
      ELSE ("engine" :> PyStr(GOOGLE_FLIGHTS)) @@ result

(***************************************************************************)
(* json.loads(multi_city_json).  The JSON text is given by what it         *)
(* denotes: [json |-> "malformed"] does not parse; [json |-> "object"] is  *)
(* a JSON object; [json |-> "array", items |-> <<...>>] is a JSON array,   *)
(* each item an object [obj |-> [departure_id, arrival_id, date]] (a key   *)
(* the object lacks is None, as leg.get gives) or a scalar [scalar |-> n]. *)
(***************************************************************************)
JsonText(kind, items) == [json |-> kind, items |-> items]
IsJsonText(v) == DOMAIN v = {"json", "items"}
JsonLoadsRaises(v) == IsJsonText(v) /\ v.json = "malformed"
JsonLoadsIsList(v) == IsJsonText(v) /\ v.json = "array"
JsonLoadsList(v) == v.items
LegObj(d, a, dt) == [obj |-> [departure_id |-> d, arrival_id |-> a, date |-> dt]]
IsLegObj(leg) == DOMAIN leg = {"obj"}

(***************************************************************************)
(* The requests and encoders the model is run on.                          *)
(***************************************************************************)
\* build_gf_urls called with nothing but the defaults of its signature.
DefaultRequest ==
  [departure_id |-> PyNone, arrival_id |-> PyNone, outbound_date |-> PyNone,
   return_date |-> PyNone, type |-> PyNone, travel_class |-> PyNone,
   adults |-> PyInt(1), children |-> PyInt(0), infants_in_seat |-> PyInt(0),
   infants_on_lap |-> PyInt(0),
   stops |-> PyNone, include_airlines |-> PyNone, exclude_airlines |-> PyNone,
   outbound_times |-> PyNone, return_times |-> PyNone,
   hl |-> PyStr(LANG_EN), gl |-> PyStr(COUNTRY_US), currency |-> PyStr(CURRENCY_USD),
   deep_search |-> PyNone, show_hidden |-> PyNone, bags |-> PyNone,
   max_price |-> PyNone, sort_by |-> PyNone, emissions |-> PyNone,
   layover_duration |-> PyNone, exclude_conns |-> PyNone, max_duration |-> PyNone,
   departure_token |-> PyNone, booking_token |-> PyNone,
   multi_city_json |-> PyNone]

\* A plain one-way request SYD -> MEL.
SimpleRequest ==
  [DefaultRequest EXCEPT !.departure_id = PyStr(SYD), !.arrival_id = PyStr(MEL),
                         !.outbound_date = PyStr(DATE_OUT)]

\* The comma-separated texts of at most n items drawn from items.
CsvTexts(items, n) ==
  {<< >>} \cup {JoinComma(q) : q \in UNION {[1..k -> items] : k \in 1..n}}

AllCaps == Features
TripKinds == {<<PyNone, PyNone>>, <<PyNone, PyStr(DATE_RET)>>,
              <<PyStr(Ch1), PyStr(DATE_RET)>>}

\* Multi-airport expansion: lists of origins and destinations, some items
\* padded, empty or not a place code.
ExpansionInputs ==
  {[req |-> [SimpleRequest EXCEPT !.departure_id = PyStr(d), !.arrival_id = PyStr(a),
                                  !.type = t[1], !.return_date = t[2]],
    caps |-> AllCaps] :
     d \in CsvTexts({SYD, CBR_PADDED, << >>, SYD_LOWER}, MaxItems),
     a \in CsvTexts({MEL, BNE, MELB}, MaxItems),
     t \in TripKinds}

\* Required fields missing or malformed.
ValidationInputs ==
  {[req |-> [DefaultRequest EXCEPT !.departure_id = d, !.arrival_id = a,
                                   !.outbound_date = o, !.return_date = r,
                                   !.type = t],
    caps |-> AllCaps] :
     d \in {PyNone, PyStr(SYD), PyStr(KGMID), PyStr(SYD_LOWER)},
     a \in {PyNone, PyStr(MEL), PyStr(MELB)},
     o \in {PyNone, PyStr(<< >>), PyStr(DATE_OUT), PyStr(DATE_FEB30),
            PyStr(DATE_SLASHES)},
     r \in {PyNone, PyStr(<< >>), PyStr(DATE_RET), PyStr(DATE_MONTH13)},
     t \in {PyNone, PyStr(Ch1), PyStr(Ch2), PyStr(Ch3), PyStr(CODE_9)}}

\* Optional filters against every encoder build.
FilterInputs ==
  {[req |-> [SimpleRequest EXCEPT !.include_airlines = i, !.exclude_airlines = e,
                                  !.outbound_times = ow, !.return_times = rw,
                                  !.type = t[1], !.return_date = t[2]],
    caps |-> c] :
     i \in {PyNone, PyStr(AIRLINE_QF)},
     e \in {PyNone, PyStr(AIRLINES_JQ_VA)},
     ow \in {PyNone, PyStr(WIN_6_18), PyStr(WIN_6_18_8_20), PyStr(WIN_6_18_20),
             PyStr(WIN_6_X)},
     rw \in {PyNone, PyStr(WIN_9_21), PyStr(WIN_9_21_10_22)},
     t \in {<<PyNone, PyNone>>, <<PyNone, PyStr(DATE_RET)>>,
            <<PyStr(Ch2), PyStr(DATE_RET)>>},
     c \in SUBSET (Features \ {"multi-city"})}

\* Enumerated codes, recognised or not.
EnumInputs ==
  {[req |-> [SimpleRequest EXCEPT !.travel_class = tc, !.stops = st,
                                  !.type = t, !.return_date = r],
    caps |-> AllCaps] :
     tc \in {PyNone, PyStr(<< >>), PyStr(Ch1), PyStr(Ch4), PyStr(CODE_9), PyInt(1)},
     st \in {PyNone, PyStr(<< >>), PyStr(Ch0), PyStr(Ch1), PyStr(CODE_7)},
     t \in {PyNone, PyStr(Ch2), PyStr(CODE_9)},
     r \in {PyNone, PyStr(DATE_RET)}}

GoodLegs == <<LegObj(PyStr(SYD), PyStr(MEL), PyStr(DATE_OUT)),
              LegObj(PyStr(MEL), PyStr(BNE), PyStr(DATE_RET)),
              LegObj(PyStr(BNE), PyStr(SYD), PyStr(DATE_THIRD))>>
ThreeLegs == JsonText("array", GoodLegs)

\* Advanced (SerpApi-only) fields, on the single-pair and the multi-city path.
AdvancedInputs ==
  {[req |-> [b EXCEPT !.sort_by = sb, !.max_price = mp, !.bags = bg,
                      !.deep_search = ds, !.emissions = em,
                      !.show_hidden = rest[1], !.layover_duration = rest[2],
                      !.exclude_conns = rest[3], !.max_duration = rest[4],
                      !.departure_token = rest[5], !.booking_token = rest[6]],
    caps |-> AllCaps] :
     b \in {SimpleRequest, [DefaultRequest EXCEPT !.multi_city_json = ThreeLegs]},
     sb \in {PyNone, PyStr(<< >>), PyStr(Ch2)},
     mp \in {PyNone, PyInt(0), PyInt(500)},
     bg \in {PyNone, PyInt(0), PyInt(2)},
     ds \in {PyNone, PyBool(FALSE), PyBool(TRUE)},
     em \in {PyNone, PyStr(<< >>), PyStr(Ch1)},
     rest \in {<<PyNone, PyNone, PyNone, PyNone, PyNone, PyNone>>,
               <<PyBool(TRUE), PyStr(LAYOVER_90_300), PyStr(CONNS_DFW_ORD),
                 PyInt(480), PyStr(TOKEN_ABC), PyStr(TOKEN_ABC)>>}}

\* Multi-city leg arrays of at most MaxLegs legs: good legs, a leg without
\* its date, a leg with a bad code.
LegItems ==
  {GoodLegs[1], GoodLegs[2],
   LegObj(PyStr(BNE), PyStr(SYD), PyNone),
   LegObj(PyStr(SYD_LOWER), PyStr(MEL), PyStr(DATE_OUT))}
MultiCityTexts ==
  {PyNone, PyStr(<< >>), JsonText("malformed", << >>), JsonText("object", << >>),
   JsonText("array", << >>), JsonText("array", <<[scalar |-> 1]>>)}
  \cup {JsonText("array", q) : q \in UNION {[1..k -> LegItems] : k \in 1..MaxLegs}}
MultiCityInputs ==
  {[req |-> [DefaultRequest EXCEPT !.multi_city_json = m, !.type = t,
                                   !.include_airlines = i, !.travel_class = tc],
    caps |-> c] :
     m \in MultiCityTexts,
     t \in {PyNone, PyStr(Ch3)},
     i \in {PyNone, PyStr(AIRLINE_QF)},
     tc \in {PyNone, PyStr(Ch3)},
     c \in SUBSET {"multi-city", "include_airlines"}}


\* Language, country and currency texts, some with characters that a URL
\* reserves, on the single-pair and the multi-city path.
LocaleInputs ==
  {[req |-> [b EXCEPT !.hl = PyStr(h), !.gl = PyStr(g), !.currency = PyStr(c)],
    caps |-> cp] :
     b \in {SimpleRequest, [SimpleRequest EXCEPT !.departure_id = PyStr(KGMID)],
            [DefaultRequest EXCEPT !.multi_city_json = ThreeLegs]},
     h \in {LANG_EN, <<"e", "n", "-", "G", "B">>, <<"e", " ", "n", "&", "x", "=", "1">>, << >>},
     g \in {COUNTRY_US, <<"U", "/", "S", "?", "#">>},
     c \in {CURRENCY_USD, <<"U", "+", "%", "2", "6">>},
     cp \in {AllCaps, {}}}

\* Passenger counts, some negative, on the single-pair path (one-way and
\* round trip) and on the multi-city path with and without encoder support.
PassengerInputs ==
  {[req |-> [b EXCEPT !.adults = PyInt(ad), !.children = PyInt(ch),
                      !.infants_in_seat = PyInt(is), !.infants_on_lap = PyInt(il)],
    caps |-> cp] :
     b \in {SimpleRequest, [SimpleRequest EXCEPT !.return_date = PyStr(DATE_RET)],
            [DefaultRequest EXCEPT !.multi_city_json = ThreeLegs]},
     ad \in {-1, 0, 2}, ch \in {-1, 0, 2}, is \in {-1, 0, 2}, il \in {-1, 0, 2},
     cp \in {AllCaps, {}}}

\* Multi-city requests that also carry time windows, a return date, airline
\* lists the encoder rejects and a bag count.
MultiCityWindowInputs ==
  {[req |-> [DefaultRequest EXCEPT
               !.multi_city_json = JsonText("array", SubSeq(GoodLegs, 1, n)),
               !.type = PyStr(Ch3), !.outbound_times = ot, !.return_times = rt,
               !.return_date = rd, !.include_airlines = al,
               !.exclude_airlines = al, !.bags = bg],
    caps |-> c] :
     n \in 1..Len(GoodLegs),
     al \in {PyNone, PyStr(AIRLINE_QF)},
     bg \in {PyNone, PyInt(2)},
     ot \in {PyNone, PyStr(WIN_6_18), PyStr(WIN_6_18_8_20)},
     rt \in {PyNone, PyStr(WIN_9_21)},
     rd \in {PyNone, PyStr(DATE_RET)},
     c \in SUBSET {"multi-city", "dep_time_window", "arr_time_window"}}

(***************************************************************************)
(* Public: build_gf_urls, as a process.  req and caps are the request and  *)
(* the installed encoder; pc is the position in build_gf_urls; the other   *)
(* variables are its locals, the outcome of the call in progress and the   *)
(* outcomes of the calls made before it.                                   *)
(***************************************************************************)
VARIABLES req, caps, pc, callNo, cov_global_unmatched, legs_in, legs, deps,
          arrs, links, idx, outcome, history

vars == <<req, caps, pc, callNo, cov_global_unmatched, legs_in, legs, deps,
          arrs, links, idx, outcome, history>>

NoOutcome == [kind |-> "none"]
Raised(exc, err) == [kind |-> "raised", exc |-> exc, err |-> err]
Returned(result) == [kind |-> "returned", result |-> result]

Init ==
  /\ \/ \E inp \in ExpansionInputs : req = inp.req /\ caps = inp.caps
     \/ \E inp \in ValidationInputs : req = inp.req /\ caps = inp.caps
     \/ \E inp \in FilterInputs : req = inp.req /\ caps = inp.caps
     \/ \E inp \in EnumInputs : req = inp.req /\ caps = inp.caps
     \/ \E inp \in AdvancedInputs : req = inp.req /\ caps = inp.caps
     \/ \E inp \in MultiCityInputs : req = inp.req /\ caps = inp.caps
     \/ \E inp \in MultiCityWindowInputs : req = inp.req /\ caps = inp.caps
     \/ \E inp \in LocaleInputs : req = inp.req /\ caps = inp.caps
     \/ \E inp \in PassengerInputs : req = inp.req /\ caps = inp.caps
  /\ pc = "idle"
  /\ callNo = 1
  /\ cov_global_unmatched = << >>
  /\ legs_in = << >>
  /\ legs = << >>
  /\ deps = << >>
  /\ arrs = << >>
  /\ links = << >>
  /\ idx = 0
  /\ outcome = NoOutcome
  /\ history = << >>

\* raise exc: the call ends without a result.
Raise(exc, err) ==
  /\ outcome' = Raised(exc, err)
  /\ pc' = "raised"

\* A mutant of IsMultiCity: only the trip-type code 3 makes a request
\* multi-city.
IsMultiCityTypeOnly(r) == r.type = PyStr(Ch3)

\* Detect multi-city (line 321).
IsMultiCity(r) == r.type = PyStr(Ch3) \/ Truthy(r.multi_city_json)

\* A mutant of FreshLinks: the list of the previous call is used again.
StaleLinks == links

\* links = [] (lines 340, 371, 401): a fresh list in every call.
FreshLinks == << >>

\* A mutant of Product: origins iterated inside destinations.
ProductDestinationsOuter(xs, ys) ==
  [k \in 1..(Len(xs) * Len(ys)) |->
     <<xs[((k - 1) % Len(xs)) + 1], ys[((k - 1) \div Len(xs)) + 1]>>]

\* A mutant of Product: the lists are paired item by item (zip).
ProductZip(xs, ys) ==
  [k \in 1..(IF Len(xs) <= Len(ys) THEN Len(xs) ELSE Len(ys)) |-> <<xs[k], ys[k]>>]

\* itertools.product(deps, arrs): destinations iterated inside origins.
Product(xs, ys) ==
  [k \in 1..(Len(xs) * Len(ys)) |->
     <<xs[((k - 1) \div Len(ys)) + 1], ys[((k - 1) % Len(ys)) + 1]>>]

\* The return_date handed to _build_single_url (line 406).
PassedReturnDate(r) ==
  IF r.type = PyStr(Ch1) \/ (Truthy(r.return_date) /\ r.type = PyNone)
  THEN r.return_date ELSE PyNone

\* The keyword arguments of _build_single_url for one pair (lines 403-416).
SingleArgs(r, dep, arr) ==
  [dep |-> dep, arr |-> arr, outbound_date |-> r.outbound_date,
   return_date |-> PassedReturnDate(r), type |-> r.type,
   travel_class |-> r.travel_class, adults |-> r.adults.int,
   children |-> r.children.int, infants_in_seat |-> r.infants_in_seat.int,
   infants_on_lap |-> r.infants_on_lap.int,
   stops |-> r.stops,
   include_airlines |-> _csv_to_list(r.include_airlines),
   exclude_airlines |-> _csv_to_list(r.exclude_airlines),
   outbound_times |-> r.outbound_times, return_times |-> r.return_times,
   hl |-> r.hl, gl |-> r.gl, currency |-> r.currency]

\* A mutant of FallbackArgs: the request's time windows are handed on.
FallbackArgsKeepWindows(r, leg) ==
  [dep |-> leg.dep.str, arr |-> leg.arr.str, outbound_date |-> leg.date,
   return_date |-> PyNone, type |-> PyStr(Ch2),
   travel_class |-> r.travel_class, adults |-> r.adults.int,
   children |-> r.children.int, infants_in_seat |-> r.infants_in_seat.int,
   infants_on_lap |-> r.infants_on_lap.int,
   stops |-> r.stops,
   include_airlines |-> _csv_to_list(r.include_airlines),
   exclude_airlines |-> _csv_to_list(r.exclude_airlines),
   outbound_times |-> r.outbound_times, return_times |-> r.return_times,
   hl |-> r.hl, gl |-> r.gl, currency |-> r.currency]

\* The keyword arguments of _build_single_url for one fallback leg
\* (lines 373-383).
FallbackArgs(r, leg) ==
  [dep |-> leg.dep.str, arr |-> leg.arr.str, outbound_date |-> leg.date,
   return_date |-> PyNone, type |-> PyStr(Ch2),
   travel_class |-> r.travel_class, adults |-> r.adults.int,
   children |-> r.children.int, infants_in_seat |-> r.infants_in_seat.int,
   infants_on_lap |-> r.infants_on_lap.int,
   stops |-> r.stops,
   include_airlines |-> _csv_to_list(r.include_airlines),
   exclude_airlines |-> _csv_to_list(r.exclude_airlines),
   outbound_times |-> PyNone, return_times |-> PyNone,
   hl |-> r.hl, gl |-> r.gl, currency |-> r.currency]

\* locals() at the return statement: the parameters and the local names.
LocalsAtReturn ==
  req @@ [cov_global_unmatched |-> cov_global_unmatched, legs_in |-> legs_in,
          legs |-> legs, deps |-> deps, arrs |-> arrs, links |-> links]

\* The eleven arguments handed to _serpapi_only_flags.
FlagArgs(r) ==
  [deep_search |-> r.deep_search, show_hidden |-> r.show_hidden, bags |-> r.bags,
   max_price |-> r.max_price, sort_by |-> r.sort_by, emissions |-> r.emissions,
   layover_duration |-> r.layover_duration, exclude_conns |-> r.exclude_conns,
   max_duration |-> r.max_duration, departure_token |-> r.departure_token,
   booking_token |-> r.booking_token]

\* The dictionary build_gf_urls returns (lines 385-389 and 419-426).
ResultDict(lks, global) ==
  [links |-> [i \in 1..Len(lks) |->
                [url |-> lks[i].url, coverage |-> lks[i].coverage]],
   unmatched_global |-> SortedSet(global \o _serpapi_only_flags(FlagArgs(req))),
   serpapi_fallback |->
     build_serpapi_params(("engine" :> PyStr(GOOGLE_FLIGHTS)) @@ LocalsAtReturn)]

\* A mutant of MissingReturnDate: only None counts as missing.
MissingReturnDateNoneOnly(r) == r.type = PyStr(Ch1) /\ r.return_date = PyNone

\* Round trip requested without a return date (line 398).
MissingReturnDate(r) == r.type = PyStr(Ch1) /\ ~Truthy(r.return_date)

\* Entry of build_gf_urls up to the first loop: multi-city detection and
\* parsing (lines 318-330), or the single-pair checks (lines 391-401).
Call ==
  /\ pc = "idle"
  /\ cov_global_unmatched' = << >>
  /\ idx' = 1
  /\ IF IsMultiCity(req)
     THEN LET mcj == req.multi_city_json
              parsed == IF Truthy(mcj) THEN mcj ELSE JsonText("array", << >>)
          IN  /\ legs' = << >>
              /\ UNCHANGED <<deps, arrs, links>>
              /\ IF \/ JsonLoadsRaises(parsed)
                    \/ ~JsonLoadsIsList(parsed)
                    \/ JsonLoadsList(parsed) = << >>
                 THEN /\ Raise("ValueError", "multi_city_json")
                      /\ UNCHANGED legs_in
                 ELSE /\ legs_in' = JsonLoadsList(parsed)
                      /\ pc' = "mc_legs"
                      /\ UNCHANGED outcome
     ELSE /\ deps' = _csv_to_list(req.departure_id)
          /\ arrs' = _csv_to_list(req.arrival_id)
          /\ UNCHANGED <<legs_in, legs>>
          /\ IF deps' = << >> \/ arrs' = << >>
             THEN Raise("ValueError", "departure_id/arrival_id") /\ UNCHANGED links
             ELSE IF ~Truthy(req.outbound_date)
             THEN Raise("ValueError", "outbound_date") /\ UNCHANGED links
             ELSE IF MissingReturnDate(req)
             THEN Raise("ValueError", "return_date") /\ UNCHANGED links
             ELSE /\ links' = FreshLinks
                  /\ pc' = "sp_loop"
                  /\ UNCHANGED outcome
  /\ UNCHANGED <<req, caps, callNo, history>>

\* One iteration of the loop over the multi-city legs (lines 332-337).
McLeg ==
  /\ pc = "mc_legs"
  /\ LET leg == legs_in[idx]
     IN  IF ~IsLegObj(leg)
         THEN Raise("AttributeError", "leg") /\ UNCHANGED <<legs, idx>>
         ELSE LET d == leg.obj.departure_id
                  a == leg.obj.arrival_id
                  dt == leg.obj.date
              IN  IF ~(Truthy(d) /\ Truthy(a) /\ Truthy(dt))
                  THEN Raise("ValueError", "leg") /\ UNCHANGED <<legs, idx>>
                  ELSE IF \/ ValidateAirportOrPlaceRaises(d)
                          \/ ValidateAirportOrPlaceRaises(a)
                  THEN Raise("ValueError", "code") /\ UNCHANGED <<legs, idx>>
                  ELSE IF ValidateIsoDateRaises(dt)
                  THEN Raise("ValueError", "date") /\ UNCHANGED <<legs, idx>>
                  ELSE /\ legs' = Append(legs, [dep |-> d, arr |-> a, date |-> dt])
                       /\ idx' = idx + 1
                       /\ pc' = IF idx = Len(legs_in) THEN "mc_build" ELSE "mc_legs"
                       /\ UNCHANGED outcome
  /\ UNCHANGED <<req, caps, callNo, cov_global_unmatched, legs_in, deps, arrs,
                 links, history>>

\* The airline probes of the multi-city itinerary (lines 353-362): st holds
\* tfs_kwargs (kw) and the entries added to cov_global_unmatched (unm).
McTryAirlines(st, key, raw) ==
  IF raw = << >> THEN st
  ELSE IF FromInterfaceAccepts((key :> raw) @@ st.kw, caps)
  THEN [kw |-> (key :> raw) @@ st.kw, unm |-> st.unm]
  ELSE [kw |-> st.kw,
        unm |-> Append(st.unm, Entry(key, NoteUnsupported, PyNone))]

\* A mutant of McKwargs: the legs are handed over last leg first.
McKwargsReversed(r, lgs) ==
  [flight_data |-> [i \in 1..Len(lgs) |->
                      FlightData(lgs[Len(lgs) + 1 - i].date,
                                 lgs[Len(lgs) + 1 - i].dep.str,
                                 lgs[Len(lgs) + 1 - i].arr.str)],
   trip |-> "multi-city",
   passengers |-> Passengers(r.adults.int, r.children.int,
                             r.infants_in_seat.int, r.infants_on_lap.int)]

\* tfs_kwargs of the multi-city itinerary before the probes (lines 343-350).
McKwargs(r, lgs) ==
  LET ff_legs == [i \in 1..Len(lgs) |->
                    FlightData(lgs[i].date, lgs[i].dep.str, lgs[i].arr.str)]
      pax == Passengers(r.adults.int, r.children.int, r.infants_in_seat.int,
                        r.infants_on_lap.int)
      kw0 == [flight_data |-> ff_legs, trip |-> "multi-city", passengers |-> pax]
      kw1 == IF r.travel_class \in TRAVEL_CLASS_KEYS
             THEN ("seat" :> TRAVEL_CLASS(r.travel_class)) @@ kw0 ELSE kw0
  IN  IF r.stops \in STOPS_MAP_KEYS
      THEN ("max_stops" :> STOPS_MAP(r.stops)) @@ kw1 ELSE kw1

\* tfs_kwargs and the unmatched entries after both probes.
McAfterProbes(r, lgs) ==
  McTryAirlines(
    McTryAirlines([kw |-> McKwargs(r, lgs), unm |-> << >>],
                  "include_airlines", _csv_to_list(r.include_airlines)),
    "exclude_airlines", _csv_to_list(r.exclude_airlines))

\* The attempt to build one multi-city link (lines 340-371), st being
\* tfs_kwargs and the unmatched entries after the probes.
McBuildWith(st) ==
  IF FromInterfaceAccepts(st.kw, caps)
  THEN /\ cov_global_unmatched' = cov_global_unmatched \o st.unm
       /\ links' = Append(FreshLinks,
            LinkOut(MakeUrl(TfsToken(st.kw), req.hl, req.gl, req.currency),
                    [Coverage EXCEPT !.encoded =
                       <<Plain("tfs"), Plain("hl"), Plain("gl"),
                         Plain("currency")>>]))
       /\ pc' = "mc_return"
       /\ idx' = idx
  ELSE /\ cov_global_unmatched' =
            (cov_global_unmatched \o st.unm)
            \o <<Entry("multi-city", NoteMultiCity, PyNone)>>
       /\ links' = FreshLinks
       /\ idx' = 1
       /\ pc' = IF Len(legs) - 1 >= 1 THEN "mc_fallback" ELSE "mc_return"

McBuild ==
  /\ pc = "mc_build"
  /\ McBuildWith(McAfterProbes(req, legs))
  /\ UNCHANGED <<req, caps, callNo, legs_in, legs, deps, arrs, outcome, history>>

\* What a loop iteration does with the outcome r of _build_single_url:
\* the exception propagates, or the link is appended.
LoopStep(r, last, again, after) ==
  IF r.exc # "None"
  THEN Raise(r.exc, r.err) /\ UNCHANGED <<links, idx>>
  ELSE /\ links' = Append(links, r.link)
       /\ idx' = idx + 1
       /\ pc' = IF idx = last THEN after ELSE again
       /\ UNCHANGED outcome

\* One iteration of the fallback loop (lines 372-384): a one-way link for
\* leg idx, for idx in 1 .. len(legs) - 1.
McFallback ==
  /\ pc = "mc_fallback"
  /\ LoopStep(_build_single_url(FallbackArgs(req, legs[idx]), caps),
              Len(legs) - 1, "mc_fallback", "mc_return")
  /\ UNCHANGED <<req, caps, callNo, cov_global_unmatched, legs_in, legs, deps,
                 arrs, history>>

\* The return statement of the multi-city branch (lines 385-389).
McReturn ==
  /\ pc = "mc_return"
  /\ outcome' = Returned(ResultDict(links, cov_global_unmatched))
  /\ pc' = "done"
  /\ UNCHANGED <<req, caps, callNo, cov_global_unmatched, legs_in, legs, deps,
                 arrs, links, idx, history>>

\* One iteration of the loop over the cartesian product (lines 402-417).
SpPair ==
  /\ pc = "sp_loop"
  /\ LoopStep(_build_single_url(
                SingleArgs(req, Product(deps, arrs)[idx][1],
                           Product(deps, arrs)[idx][2]), caps),
              Len(Product(deps, arrs)), "sp_loop", "sp_return")
  /\ UNCHANGED <<req, caps, callNo, cov_global_unmatched, legs_in, legs, deps,
                 arrs, history>>

\* The return statement of the single-pair branch (lines 419-426).
SpReturn ==
  /\ pc = "sp_return"
  /\ outcome' = Returned(ResultDict(links, << >>))
  /\ pc' = "done"
  /\ UNCHANGED <<req, caps, callNo, cov_global_unmatched, legs_in, legs, deps,
                 arrs, links, idx, history>>

\* The caller takes the outcome and calls build_gf_urls again with the same
\* request; the frame of the finished call is garbage the next call never
\* reads.
NextCall ==
  /\ pc \in {"done", "raised"}
  /\ callNo < MaxCalls
  /\ history' = Append(history, outcome)
  /\ outcome' = NoOutcome
  /\ callNo' = callNo + 1
  /\ pc' = "idle"
  /\ UNCHANGED <<req, caps, cov_global_unmatched, legs_in, legs, deps, arrs,
                 links, idx>>

Next == Call \/ McLeg \/ McBuild \/ McFallback \/ McReturn \/ SpPair \/ SpReturn
        \/ NextCall

Spec == Init /\ [][Next]_vars

(***************************************************************************)
(* build_serpapi_params on its own: the keyword arguments are drawn key by *)
(* key, a key being left out or given one of a few values, and the one     *)
(* step builds the mapping.  req holds the keyword arguments.              *)
(***************************************************************************)
Absent == [absent |-> TRUE]
AirlineLists ==
  {PyList(q) : q \in UNION {[1..k -> {AIRLINE_QF, <<"J", "Q">>}] : k \in 0..MaxItems}}
ParamChoices ==
  [engine : {Absent, PyNone, PyStr(<< >>), PyStr(GOOGLE_FLIGHTS), PyStr(<<"g">>)},
   departure_id : {Absent, PyNone, PyStr(<< >>), PyStr(SYD)},
   include_airlines : {Absent, PyNone, PyStr(<< >>), PyStr(AIRLINE_QF)} \cup AirlineLists,
   exclude_airlines : {Absent, PyList(<< >>), PyList(<<AIRLINE_QF>>), PyStr(AIRLINES_JQ_VA)},
   bags : {Absent, PyNone, PyInt(0), PyInt(2)},
   deep_search : {Absent, PyBool(FALSE), PyBool(TRUE)},
   links : {Absent, PyList(<< >>), PyList(<<SYD>>)}]
KwargsOf(choice) ==
  [k \in {n \in DOMAIN choice : choice[n] # Absent} |-> choice[k]]

ParamsInit ==
  /\ \E choice \in ParamChoices : req = KwargsOf(choice)
  /\ caps = AllCaps
  /\ pc = "idle"
  /\ callNo = 1
  /\ cov_global_unmatched = << >>
  /\ legs_in = << >>
  /\ legs = << >>
  /\ deps = << >>
  /\ arrs = << >>
  /\ links = << >>
  /\ idx = 0
  /\ outcome = NoOutcome
  /\ history = << >>

BuildParams ==
  /\ pc = "idle"
  /\ outcome' = Returned(build_serpapi_params(req))
  /\ pc' = "params"
  /\ UNCHANGED <<req, caps, callNo, cov_global_unmatched, legs_in, legs, deps,
                 arrs, links, idx, history>>

ParamsNext == BuildParams

ParamsSpec == ParamsInit /\ [][ParamsNext]_vars

(***************************************************************************)
(* _parse_time_window on its own: the text is drawn from the texts of at   *)
(* most MaxWindowItems items joined by commas, and the one step parses it. *)
(***************************************************************************)
WindowItems ==
  {<<"6">>, <<"1", "8">>, <<" ", "8", " ">>, <<"-", "3">>, << >>,
   <<"6", "x">>, <<"1", " ", "8">>}
WindowTexts ==
  {PyNone}
  \cup {PyStr(JoinComma(q)) :
          q \in UNION {[1..k -> WindowItems] : k \in 1..MaxWindowItems}}

WindowInit ==
  /\ \E w \in WindowTexts : req = [DefaultRequest EXCEPT !.outbound_times = w]
  /\ caps = AllCaps
  /\ pc = "idle"
  /\ callNo = 1
  /\ cov_global_unmatched = << >>
  /\ legs_in = << >>
  /\ legs = << >>
  /\ deps = << >>
  /\ arrs = << >>
  /\ links = << >>
  /\ idx = 0
  /\ outcome = NoOutcome
  /\ history = << >>

ParseWindow ==
  /\ pc = "idle"
  /\ outcome' = Returned(_parse_time_window(req.outbound_times))
  /\ pc' = "parsed"
  /\ UNCHANGED <<req, caps, callNo, cov_global_unmatched, legs_in, legs, deps,
                 arrs, links, idx, history>>

WindowNext == ParseWindow

WindowSpec == WindowInit /\ [][WindowNext]_vars

(***************************************************************************)
(* gfurl (src/gfurl/__init__.py): the generator that builds a search URL   *)
(* in natural language.  Texts are sequences of characters; the cabin and  *)
(* stops names, which are only looked up, are strings.                     *)
(***************************************************************************)
\* Cabin class mappings and stops mappings: the keys.
CABIN_CLASSES == {"ECONOMY", "PREMIUM_ECONOMY", "BUSINESS", "FIRST"}
STOPS_MAPPING == {"ANY", "NONSTOP", "MAX_1", "MAX_2"}

\* len(code) == 3 and code.isalpha() and code.isupper()
_validate_airport_code(code) ==
  Len(code) = 3 /\ \A i \in 1..Len(code) : code[i] \in UpperChars

\* datetime.strptime(date_str, "%Y-%m-%d"): %Y is four digits, %m is one or
\* two digits for 1-12, %d is one or two digits (or a blank and a digit) for
\* 1-31, and the date must be one of the calendar.
DashPositions(s) == {i \in 1..Len(s) : s[i] = "-"}
FirstDash(s) == CHOOSE i \in DashPositions(s) : \A j \in DashPositions(s) : i <= j
LastDash(s) == CHOOSE i \in DashPositions(s) : \A j \in DashPositions(s) : i >= j
YearField(s) == SubSeq(s, 1, FirstDash(s) - 1)
MonthField(s) == SubSeq(s, FirstDash(s) + 1, LastDash(s) - 1)
DayField(s) == SubSeq(s, LastDash(s) + 1, Len(s))
AllDigits(t) == t # << >> /\ \A i \in 1..Len(t) : t[i] \in DigitChars
DayDigits(t) == IF Len(t) = 2 /\ t[1] = " " THEN Tail(t) ELSE t
StrptimeOk(s) ==
  /\ Cardinality(DashPositions(s)) = 2
  /\ Len(YearField(s)) = 4 /\ AllDigits(YearField(s))
  /\ Len(MonthField(s)) \in {1, 2} /\ AllDigits(MonthField(s))
  /\ Len(DayField(s)) \in {1, 2} /\ AllDigits(DayDigits(DayField(s)))
  /\ DigitsVal(YearField(s)) >= 1
  /\ DigitsVal(MonthField(s)) \in 1..12
  /\ DigitsVal(DayDigits(DayField(s))) >= 1
  /\ DigitsVal(DayDigits(DayField(s)))
       <= DaysInMonth(DigitsVal(YearField(s)), DigitsVal(MonthField(s)))
_validate_date(date_str) == StrptimeOk(date_str)

\* The words of the search query.
QueryWords ==
  [ flights_from |-> <<"f", "l", "i", "g", "h", "t", "s", " ", "f", "r", "o", "m", " ">>,
    to |-> <<" ", "t", "o", " ">>,
    on |-> <<" ", "o", "n", " ">>,
    returning |-> <<" ", "r", "e", "t", "u", "r", "n", "i", "n", "g", " ">>,
    flights |-> <<"f", "l", "i", "g", "h", "t", "s", " ">>,
    then |-> <<" ", "t", "h", "e", "n", " ">>,
    for |-> <<" ", "f", "o", "r", " ">>,
    comma_blank |-> <<",", " ">>,
    adults |-> <<" ", "a", "d", "u", "l", "t", "s">>,
    one_adult |-> <<"1", " ", "a", "d", "u", "l", "t">>,
    children |-> <<" ", "c", "h", "i", "l", "d", "r", "e", "n">>,
    infants |-> <<" ", "i", "n", "f", "a", "n", "t", "s">>,
    in |-> <<" ", "i", "n", " ">>,
    premium_economy_name |-> <<"p", "r", "e", "m", "i", "u", "m", " ", "e", "c", "o", "n", "o", "m", "y">>,
    business_name |-> <<"b", "u", "s", "i", "n", "e", "s", "s", " ", "c", "l", "a", "s", "s">>,
    first_name |-> <<"f", "i", "r", "s", "t", " ", "c", "l", "a", "s", "s">>,
    economy_name |-> <<"e", "c", "o", "n", "o", "m", "y">>,
    nonstop_word |-> <<" ", "n", "o", "n", "s", "t", "o", "p">> ]

\* str(n) of a count.
IntText(n) ==
  IF n < 10 THEN <<ToString(n)>> ELSE <<ToString(n \div 10), ToString(n % 10)>>
\* pax.get(key, default), serpapi_params.get(key, default)
PaxGet(pax, key, default) == IF key \in DOMAIN pax THEN pax[key] ELSE default

\* separator.join(parts)
RECURSIVE JoinWith(_, _)
JoinWith(parts, separator) ==
  IF parts = << >> THEN << >>
  ELSE IF Len(parts) = 1 THEN parts[1]
  ELSE parts[1] \o separator \o JoinWith(Tail(parts), separator)

\* The query before passengers, cabin and stops (lines 256-271).
LegsQuery(lgs) ==
  IF Len(lgs) = 1
  THEN QueryWords.flights_from \o lgs[1]["from"] \o QueryWords.to \o lgs[1]["to"] \o QueryWords.on
       \o lgs[1]["date"]
  ELSE IF Len(lgs) = 2
  THEN QueryWords.flights_from \o lgs[1]["from"] \o QueryWords.to \o lgs[1]["to"] \o QueryWords.on
       \o lgs[1]["date"] \o QueryWords.returning \o lgs[2]["date"]
  ELSE QueryWords.flights \o JoinWith([i \in 1..Len(lgs) |->
                              lgs[i]["from"] \o QueryWords.to \o lgs[i]["to"] \o QueryWords.on
                              \o lgs[i]["date"]], QueryWords.then)

\* The passenger texts (lines 274-289).
PassengerText(adults, children, total_infants) ==
  (IF adults > 1 THEN <<IntText(adults) \o QueryWords.adults>>
   ELSE IF adults = 1 /\ (children > 0 \/ total_infants > 0) THEN <<QueryWords.one_adult>>
   ELSE << >>)
  \o (IF children > 0 THEN <<IntText(children) \o QueryWords.children>> ELSE << >>)
  \o (IF total_infants > 0 THEN <<IntText(total_infants) \o QueryWords.infants>> ELSE << >>)
PassengerQuery(adults, children, total_infants) ==
  IF (adults # 1 \/ children > 0 \/ total_infants > 0)
     /\ PassengerText(adults, children, total_infants) # << >>
  THEN QueryWords.for \o JoinWith(PassengerText(adults, children, total_infants), QueryWords.comma_blank)
  ELSE << >>

\* The cabin and the nonstop words (lines 292-302).
CabinQuery(cabin) ==
  IF cabin = "ECONOMY" THEN << >>
  ELSE QueryWords.in \o (CASE cabin = "PREMIUM_ECONOMY" -> QueryWords.premium_economy_name
                [] cabin = "BUSINESS" -> QueryWords.business_name
                [] cabin = "FIRST" -> QueryWords.first_name
                [] OTHER -> QueryWords.economy_name)
StopsQuery(stops) == IF stops = "NONSTOP" THEN QueryWords.nonstop_word ELSE << >>

GfBaseUrl == "https://www.google.com/travel/flights"
\* _create_simple_search_url: the base and, in order, the parameters of
\* urllib.parse.urlencode(params).
_create_simple_search_url(lgs, pax, cabin, stops, hl, gl, currency) ==
  [base |-> GfBaseUrl,
   query |-> << <<"q", QuotePlus(
                   LegsQuery(lgs)
                   \o PassengerQuery(PaxGet(pax, "adults", 1), PaxGet(pax, "children", 0),
                                     PaxGet(pax, "infants_in_seat", 0)
                                     + PaxGet(pax, "infants_on_lap", 0))
                   \o CabinQuery(cabin) \o StopsQuery(stops))>>,
               <<"hl", QuotePlus(hl)>>, <<"gl", QuotePlus(gl)>>,
               <<"curr", QuotePlus(currency)>> >>]

\* The check of one leg (lines 357-365): the fault found first, or "".
LegFault(leg) ==
  IF ~({"from", "to", "date"} \subseteq DOMAIN leg) THEN "keys"
  ELSE IF ~_validate_airport_code(leg["from"]) THEN "from"
  ELSE IF ~_validate_airport_code(leg["to"]) THEN "to"
  ELSE IF ~_validate_date(leg["date"]) THEN "date"
  ELSE ""
FaultyLegs(lgs) == {i \in 1..Len(lgs) : LegFault(lgs[i]) # ""}
FirstFaultyLeg(lgs) == CHOOSE i \in FaultyLegs(lgs) : \A j \in FaultyLegs(lgs) : i <= j
DefaultPax ==
  [adults |-> 1, children |-> 0, infants_in_seat |-> 0, infants_on_lap |-> 0]

\* What a call that raises hands back: nothing.
NoUrl == [none |-> TRUE]

\* A mutant of build_gf_url: a call that carries an airline or time filter
\* is refused, since the URL cannot express it.
BuildGfUrlRefusesFilters(a) ==
  IF a.legs = << >> THEN [exc |-> "ValueError", err |-> "legs", url |-> NoUrl]
  ELSE IF FaultyLegs(a.legs) # {}
    THEN [exc |-> "ValueError", err |-> LegFault(a.legs[FirstFaultyLeg(a.legs)]),
          url |-> NoUrl]
  ELSE IF a.cabin \notin CABIN_CLASSES
    THEN [exc |-> "ValueError", err |-> "cabin", url |-> NoUrl]
  ELSE IF a.stops \notin STOPS_MAPPING
    THEN [exc |-> "ValueError", err |-> "stops", url |-> NoUrl]
  ELSE IF \E k \in {"include_airlines", "exclude_airlines", "dep_time_window",
                    "arr_time_window"} : a[k] # PyNone
    THEN [exc |-> "ValueError", err |-> "filters", url |-> NoUrl]
  ELSE [exc |-> "None", err |-> "",
        url |-> _create_simple_search_url(
                  a.legs, IF a.pax = PyNone THEN DefaultPax ELSE a.pax,
                  a.cabin, a.stops, a.hl, a.gl, a.currency)]

\* build_gf_url.  a is the record of its arguments; the result is
\* [exc, err, url], exc "None" when it returns.
build_gf_url(a) ==
  IF a.legs = << >> THEN [exc |-> "ValueError", err |-> "legs", url |-> NoUrl]
  ELSE IF FaultyLegs(a.legs) # {}
    THEN [exc |-> "ValueError", err |-> LegFault(a.legs[FirstFaultyLeg(a.legs)]),
          url |-> NoUrl]
  ELSE IF a.cabin \notin CABIN_CLASSES
    THEN [exc |-> "ValueError", err |-> "cabin", url |-> NoUrl]
  ELSE IF a.stops \notin STOPS_MAPPING
    THEN [exc |-> "ValueError", err |-> "stops", url |-> NoUrl]
  ELSE [exc |-> "None", err |-> "",
        url |-> _create_simple_search_url(
                  a.legs, IF a.pax = PyNone THEN DefaultPax ELSE a.pax,
                  a.cabin, a.stops, a.hl, a.gl, a.currency)]

\* The arguments of the calls that are made.
DATE_SHORT == <<"2", "0", "2", "5", "-", "8", "-", "5">>
Leg(from, to, date) == [from |-> from, to |-> to, date |-> date]
GfLegItems ==
  {Leg(SYD, MEL, DATE_OUT), Leg(MEL, SYD, DATE_RET),
   [from |-> SYD, to |-> MEL],
   Leg(SYD_LOWER, MEL, DATE_OUT), Leg(SYD, MELB, DATE_OUT),
   Leg(SYD, MEL, DATE_SLASHES), Leg(SYD, MEL, DATE_FEB30),
   Leg(SYD, MEL, DATE_SHORT)}
GfLegLists == UNION {[1..k -> GfLegItems] : k \in 0..MaxGfLegs}
GfInputs ==
  {[legs |-> l, pax |-> p, cabin |-> c, stops |-> st,
    include_airlines |-> f[1], exclude_airlines |-> PyNone,
    dep_time_window |-> f[2], arr_time_window |-> PyNone,
    hl |-> loc[1], gl |-> COUNTRY_US, currency |-> loc[2]] :
     l \in GfLegLists,
     p \in {PyNone, [adults |-> 2, children |-> 1, infants_on_lap |-> 1]},
     c \in {"ECONOMY", "BUSINESS", "INVALID"},
     st \in {"ANY", "NONSTOP", "MAX_3"},
     f \in {<<PyNone, PyNone>>, <<PyList(<<AIRLINE_QF>>), PyTuple(<<8, 20>>)>>},
     loc \in {<<LANG_EN, CURRENCY_USD>>, <<<<"e", " ", "n", "&">>, <<"A", "U", "D">>>>}}

GfInit ==
  /\ \E inp \in GfInputs : req = inp
  /\ caps = {}
  /\ pc = "idle"
  /\ callNo = 1
  /\ cov_global_unmatched = << >>
  /\ legs_in = << >>
  /\ legs = << >>
  /\ deps = << >>
  /\ arrs = << >>
  /\ links = << >>
  /\ idx = 0
  /\ outcome = NoOutcome
  /\ history = << >>

\* One call of build_gf_url: it returns the URL or raises.
GfCall ==
  /\ pc = "idle"
  /\ outcome' = IF build_gf_url(req).exc = "None"
                THEN Returned(build_gf_url(req).url)
                ELSE Raised(build_gf_url(req).exc, build_gf_url(req).err)
  /\ pc' = IF build_gf_url(req).exc = "None" THEN "gf_done" ELSE "gf_raised"
  /\ UNCHANGED <<req, caps, callNo, cov_global_unmatched, legs_in, legs, deps,
                 arrs, links, idx, history>>

GfNext == GfCall

GfSpec == GfInit /\ [][GfNext]_vars


(***************************************************************************)
(* build_gf_urls called twice with multi_city_json, the second request     *)
(* being the first with other values of departure_id, arrival_id,          *)
(* outbound_date, return_date, outbound_times and return_times.  history   *)
(* holds the outcome of the first call.                                    *)
(***************************************************************************)
\* Values of the six parameters: none, a valid set, an invalid set, a
\* partial set.
SinglePairValues ==
  {<<PyNone, PyNone, PyNone, PyNone, PyNone, PyNone>>,
   <<PyStr(SYD), PyStr(MEL), PyStr(DATE_OUT), PyStr(DATE_RET), PyStr(WIN_6_18),
     PyStr(WIN_9_21)>>,
   <<PyStr(SYD_LOWER), PyStr(MELB), PyStr(DATE_FEB30), PyStr(DATE_SLASHES),
     PyStr(WIN_6_X), PyStr(WIN_6_18_20)>>,
   <<PyStr(BNE), PyNone, PyStr(DATE_THIRD), PyNone, PyStr(WIN_6_18_8_20), PyNone>>}
WithSinglePairValues(r, v) ==
  [r EXCEPT !.departure_id = v[1], !.arrival_id = v[2], !.outbound_date = v[3],
            !.return_date = v[4], !.outbound_times = v[5], !.return_times = v[6]]
TwoRequestInputs ==
  {[req |-> WithSinglePairValues(
              [DefaultRequest EXCEPT !.multi_city_json = m, !.type = t,
                                     !.include_airlines = i], v),
    caps |-> c] :
     m \in {ThreeLegs, JsonText("array", SubSeq(GoodLegs, 1, 1)),
            JsonText("array", <<GoodLegs[1],
                                LegObj(PyStr(SYD_LOWER), PyStr(MEL), PyStr(DATE_OUT))>>),
            JsonText("malformed", << >>)},
     t \in {PyNone, PyStr(Ch1), PyStr(Ch2), PyStr(Ch3)},
     i \in {PyNone, PyStr(AIRLINE_QF)},
     v \in SinglePairValues,
     c \in {AllCaps, {}, {"multi-city"},
            {"dep_time_window", "arr_time_window", "per_leg_windows"}}}

TwoRequestInit ==
  /\ \E inp \in TwoRequestInputs : req = inp.req /\ caps = inp.caps
  /\ pc = "idle"
  /\ callNo = 1
  /\ cov_global_unmatched = << >>
  /\ legs_in = << >>
  /\ legs = << >>
  /\ deps = << >>
  /\ arrs = << >>
  /\ links = << >>
  /\ idx = 0
  /\ outcome = NoOutcome
  /\ history = << >>

\* The caller takes the outcome of the first call and calls build_gf_urls
\* with the same arguments but for the six parameters.
CallAgainWith ==
  /\ pc \in {"done", "raised"}
  /\ callNo = 1
  /\ \E v \in SinglePairValues : req' = WithSinglePairValues(req, v)
  /\ history' = Append(history, outcome)
  /\ outcome' = NoOutcome
  /\ callNo' = callNo + 1
  /\ pc' = "idle"
  /\ UNCHANGED <<caps, cov_global_unmatched, legs_in, legs, deps, arrs, links, idx>>

TwoRequestNext ==
  Call \/ McLeg \/ McBuild \/ McFallback \/ McReturn \/ CallAgainWith

TwoRequestSpec == TwoRequestInit /\ [][TwoRequestNext]_vars

(***************************************************************************)
(* gfurl.build_gf_url called twice, the second call with other values of   *)
(* include_airlines, exclude_airlines, dep_time_window and                 *)
(* arr_time_window.  history holds the outcome of the first call.          *)
(***************************************************************************)
GfFilterValues ==
  {<<PyNone, PyNone, PyNone, PyNone>>,
   <<PyList(<<AIRLINE_QF>>), PyNone, PyTuple(<<8, 20>>), PyNone>>,
   <<PyNone, PyList(<<<<"J", "Q">>, <<"V", "A">>>>), PyNone, PyTuple(<<6, 18>>)>>,
   <<PyList(<<AIRLINE_QF>>), PyList(<<<<"J", "Q">>, <<"V", "A">>>>),
     PyTuple(<<8, 20>>), PyTuple(<<6, 18>>)>>}
GfFiltersOf(a) ==
  <<a.include_airlines, a.exclude_airlines, a.dep_time_window, a.arr_time_window>>
WithGfFilters(a, v) ==
  [a EXCEPT !.include_airlines = v[1], !.exclude_airlines = v[2],
            !.dep_time_window = v[3], !.arr_time_window = v[4]]
GfFilterLegLists ==
  UNION {[1..k -> {Leg(SYD, MEL, DATE_OUT), Leg(MEL, SYD, DATE_RET),
                   Leg(SYD, MELB, DATE_OUT)}] : k \in 0..MaxGfLegs}
GfFilterInputs ==
  {WithGfFilters([legs |-> l, pax |-> p, cabin |-> c, stops |-> st,
                  include_airlines |-> PyNone, exclude_airlines |-> PyNone,
                  dep_time_window |-> PyNone, arr_time_window |-> PyNone,
                  hl |-> LANG_EN, gl |-> COUNTRY_US, currency |-> CURRENCY_USD], v) :
     l \in GfFilterLegLists,
     p \in {PyNone, [adults |-> 2, children |-> 1, infants_on_lap |-> 1]},
     c \in {"BUSINESS", "INVALID"},
     st \in {"NONSTOP", "MAX_3"},
     v \in GfFilterValues}

GfFilterInit ==
  /\ \E inp \in GfFilterInputs : req = inp
  /\ caps = {}
  /\ pc = "idle"
  /\ callNo = 1
  /\ cov_global_unmatched = << >>
  /\ legs_in = << >>
  /\ legs = << >>
  /\ deps = << >>
  /\ arrs = << >>
  /\ links = << >>
  /\ idx = 0
  /\ outcome = NoOutcome
  /\ history = << >>

\* The caller takes the outcome of the first call and calls build_gf_url
\* with the same arguments but for other values of the four filters.
GfCallAgainWith ==
  /\ pc \in {"gf_done", "gf_raised"}
  /\ callNo = 1
  /\ \E v \in GfFilterValues \ {GfFiltersOf(req)} : req' = WithGfFilters(req, v)
  /\ history' = Append(history, outcome)
  /\ outcome' = NoOutcome
  /\ callNo' = callNo + 1
  /\ pc' = "idle"
  /\ UNCHANGED <<caps, cov_global_unmatched, legs_in, legs, deps, arrs, links, idx>>

GfFilterNext == GfCall \/ GfCallAgainWith

GfFilterSpec == GfFilterInit /\ [][GfFilterNext]_vars

(***************************************************************************)
(* gpt2.build_gf_url: one Google Flights link from a list of legs, with    *)
(* the payload built by the encoder.                                       *)
(***************************************************************************)
\* _validate_airport and _validate_date of gpt2: TRUE when they raise.
Gpt2ValidateAirportRaises(code) == ~IATA_RE(code)
Gpt2ValidateDateRaises(iso_date) == ~FromIsoFormatOk(iso_date)

\* One iteration of the loop over the legs (lines 58-69): the exception it
\* raises, or "None".
Gpt2LegFault(leg) ==
  IF "from" \notin DOMAIN leg THEN "KeyError"
  ELSE IF Gpt2ValidateAirportRaises(leg["from"]) THEN "ValueError"
  ELSE IF "to" \notin DOMAIN leg THEN "KeyError"
  ELSE IF Gpt2ValidateAirportRaises(leg["to"]) THEN "ValueError"
  ELSE IF "date" \notin DOMAIN leg THEN "KeyError"
  ELSE IF Gpt2ValidateDateRaises(leg["date"]) THEN "ValueError"
  ELSE "None"
Gpt2FaultyLegs(lgs) == {i \in 1..Len(lgs) : Gpt2LegFault(lgs[i]) # "None"}
Gpt2FirstFaultyLeg(lgs) ==
  CHOOSE i \in Gpt2FaultyLegs(lgs) : \A j \in Gpt2FaultyLegs(lgs) : i <= j

\* seat_map and stops_map (lines 71-76 and 94-99).
Gpt2SeatMap(cabin) ==
  CASE cabin = "ECONOMY" -> "economy"
    [] cabin = "PREMIUM_ECONOMY" -> "premium-economy"
    [] cabin = "BUSINESS" -> "business"
    [] cabin = "FIRST" -> "first"
Gpt2StopsMap(stops) ==
  CASE stops = "ANY" -> PyNone
    [] stops = "NONSTOP" -> PyInt(0)
    [] stops = "MAX_1" -> PyInt(1)
    [] stops = "MAX_2" -> PyInt(2)

\* trip_type (lines 78-84).
Gpt2TripType(leg_objs) ==
  IF Len(leg_objs) = 1 THEN "one-way"
  ELSE IF Len(leg_objs) = 2 /\ leg_objs[1].from_airport = leg_objs[2].to_airport
    THEN "round-trip"
  ELSE "multi-city"

\* The keyword arguments of TFSData.from_interface (lines 104-110).
Gpt2Kwargs(a) ==
  [flight_data |-> [i \in 1..Len(a.legs) |->
                      FlightData(a.legs[i]["date"], a.legs[i]["from"], a.legs[i]["to"])],
   trip |-> Gpt2TripType([i \in 1..Len(a.legs) |->
                      FlightData(a.legs[i]["date"], a.legs[i]["from"], a.legs[i]["to"])]),
   passengers |-> Passengers(PaxGet(a.pax, "adults", 1), PaxGet(a.pax, "children", 0),
                             PaxGet(a.pax, "infants_in_seat", 0),
                             PaxGet(a.pax, "infants_on_lap", 0)),
   seat |-> Gpt2SeatMap(a.cabin),
   max_stops |-> Gpt2StopsMap(a.stops)]

\* The SerpApi extras reported as unmatched (lines 124-131).
Gpt2Unmatched(a) ==
  (IF a.deep_search THEN <<"deep_search">> ELSE << >>)
  \o (IF a.show_hidden THEN <<"show_hidden">> ELSE << >>)
  \o (IF /\ Truthy(a.arr_time_window)
         /\ Len(a.arr_time_window.tuple) = 2
         /\ a.dep_time_window = PyNone
      THEN <<"arr_time_window (departure-only provided)">> ELSE << >>)

\* build_gf_url of gpt2.  a is the record of its arguments; the result is
\* [exc, result], exc "None" when it returns.
Gpt2BuildGfUrl(a, encoder) ==
  IF Gpt2FaultyLegs(a.legs) # {}
  THEN [exc |-> Gpt2LegFault(a.legs[Gpt2FirstFaultyLeg(a.legs)]), result |-> NoUrl]
  ELSE IF a.stops \notin {"ANY", "NONSTOP", "MAX_1", "MAX_2"}
    THEN [exc |-> "KeyError", result |-> NoUrl]
  ELSE IF a.cabin \notin {"ECONOMY", "PREMIUM_ECONOMY", "BUSINESS", "FIRST"}
    THEN [exc |-> "KeyError", result |-> NoUrl]
  ELSE IF ~FromInterfaceAccepts(Gpt2Kwargs(a), encoder)
    THEN [exc |-> "TypeError", result |-> NoUrl]
  ELSE [exc |-> "None",
        result |->
          [url |-> [base |-> BaseUrl,
                    query |-> << <<"tfs", [tfs |-> Gpt2Kwargs(a),
                                          text |-> QuotePlus(TokenText)]>>,
                                <<"hl", QuotePlus(a.hl)>>, <<"gl", QuotePlus(a.gl)>>,
                                <<"curr", QuotePlus(a.currency)>> >>],
           coverage |-> [tfs |-> <<"tfs", "hl", "gl", "curr">>,
                         unmatched |-> Gpt2Unmatched(a)]]]

\* The arguments of the calls that are made.
Gpt2LegItems ==
  {Leg(SYD, MEL, DATE_OUT), Leg(MEL, SYD, DATE_RET), Leg(BNE, SYD, DATE_RET),
   Leg(MEL, BNE, DATE_RET), Leg(SYD_LOWER, MEL, DATE_OUT),
   [from |-> SYD, to |-> MEL]}
Gpt2Inputs ==
  {[req |-> [legs |-> l, pax |-> [adults |-> 1], cabin |-> c, stops |-> st,
             include_airlines |-> PyNone, exclude_airlines |-> PyNone,
             dep_time_window |-> f[2], arr_time_window |-> f[3],
             hl |-> LANG_EN, gl |-> COUNTRY_US, currency |-> CURRENCY_USD,
             deep_search |-> f[1], show_hidden |-> f[1]],
    caps |-> cp] :
     l \in UNION {[1..k -> Gpt2LegItems] : k \in 0..MaxLegs},
     c \in {"ECONOMY", "INVALID"},
     st \in {"NONSTOP", "MAX_3"},
     f \in {<<FALSE, PyNone, PyNone>>, <<TRUE, PyNone, PyTuple(<<6, 18>>)>>,
            <<FALSE, PyTuple(<<8, 20>>), PyTuple(<<6, 18>>)>>},
     cp \in {AllCaps, {}}}

Gpt2Init ==
  /\ \E inp \in Gpt2Inputs : req = inp.req /\ caps = inp.caps
  /\ pc = "idle"
  /\ callNo = 1
  /\ cov_global_unmatched = << >>
  /\ legs_in = << >>
  /\ legs = << >>
  /\ deps = << >>
  /\ arrs = << >>
  /\ links = << >>
  /\ idx = 0
  /\ outcome = NoOutcome
  /\ history = << >>

\* One call of gpt2.build_gf_url: it returns the link or raises.
Gpt2Call ==
  /\ pc = "idle"
  /\ outcome' = IF Gpt2BuildGfUrl(req, caps).exc = "None"
                THEN Returned(Gpt2BuildGfUrl(req, caps).result)
                ELSE Raised(Gpt2BuildGfUrl(req, caps).exc, "")
  /\ pc' = IF Gpt2BuildGfUrl(req, caps).exc = "None" THEN "gpt2_done"
           ELSE "gpt2_raised"
  /\ UNCHANGED <<req, caps, callNo, cov_global_unmatched, legs_in, legs, deps,
                 arrs, links, idx, history>>

Gpt2Next == Gpt2Call

Gpt2Spec == Gpt2Init /\ [][Gpt2Next]_vars

(***************************************************************************)
(* gfurl.build_gf_url_from_serpapi, and the two SerpApi-style entry points *)
(* called one after the other for the same trip: first                     *)
(* build_gf_url_from_serpapi, whose list of legs is kept in legs and whose *)
(* outcome goes to history, then SerpAPI.build_gf_urls.                    *)
(***************************************************************************)
\* The legs of the trip type (lines 406-429): [exc, legs].
SerpapiLegs(p) ==
  LET trip_type == PaxGet(p, "type", PyInt(1))
      outbound == {"departure_id", "arrival_id", "outbound_date"}
  IN  IF PyEq(trip_type, PyInt(1))
      THEN IF ~(outbound \subseteq DOMAIN p) THEN [exc |-> "KeyError", legs |-> << >>]
           ELSE [exc |-> "None",
                 legs |-> <<Leg(p["departure_id"].str, p["arrival_id"].str,
                                p["outbound_date"].str)>>]
      ELSE IF PyEq(trip_type, PyInt(2))
      THEN IF ~(outbound \cup {"return_date"} \subseteq DOMAIN p)
           THEN [exc |-> "KeyError", legs |-> << >>]
           ELSE [exc |-> "None",
                 legs |-> <<Leg(p["departure_id"].str, p["arrival_id"].str,
                                p["outbound_date"].str),
                            Leg(p["arrival_id"].str, p["departure_id"].str,
                                p["return_date"].str)>>]
      ELSE [exc |-> "NotImplementedError", legs |-> << >>]

\* cabin_map.get(travel_class, "ECONOMY") and stops_map.get(max_stops, "ANY")
\* (lines 440-447).
SerpapiCabin(p) ==
  LET travel_class == PaxGet(p, "travel_class", PyInt(1))
  IN  CASE PyEq(travel_class, PyInt(2)) -> "PREMIUM_ECONOMY"
        [] PyEq(travel_class, PyInt(3)) -> "BUSINESS"
        [] PyEq(travel_class, PyInt(4)) -> "FIRST"
        [] OTHER -> "ECONOMY"
SerpapiStops(p) ==
  LET max_stops == PaxGet(p, "max_stops", PyInt(-1))
  IN  CASE PyEq(max_stops, PyInt(0)) -> "NONSTOP"
        [] PyEq(max_stops, PyInt(1)) -> "MAX_1"
        [] PyEq(max_stops, PyInt(2)) -> "MAX_2"
        [] OTHER -> "ANY"

\* The arguments handed to build_gf_url (lines 432-459).
SerpapiArgs(p) ==
  [legs |-> SerpapiLegs(p).legs,
   pax |-> [adults |-> PaxGet(p, "adults", PyInt(1)).int,
            children |-> PaxGet(p, "children", PyInt(0)).int,
            infants_in_seat |-> PaxGet(p, "infants_in_seat", PyInt(0)).int,
            infants_on_lap |-> PaxGet(p, "infants_on_lap", PyInt(0)).int],
   cabin |-> SerpapiCabin(p), stops |-> SerpapiStops(p),
   include_airlines |-> PaxGet(p, "include_airlines", PyNone),
   exclude_airlines |-> PaxGet(p, "exclude_airlines", PyNone),
   dep_time_window |-> PyNone, arr_time_window |-> PyNone,
   hl |-> PaxGet(p, "hl", PyStr(LANG_EN)).str,
   gl |-> PaxGet(p, "gl", PyStr(COUNTRY_US)).str,
   currency |-> PaxGet(p, "currency", PyStr(CURRENCY_USD)).str]

\* build_gf_url_from_serpapi: [exc, err, url, legs], exc "None" when it
\* returns.
build_gf_url_from_serpapi(p) ==
  IF SerpapiLegs(p).exc # "None"
  THEN [exc |-> SerpapiLegs(p).exc, err |-> "type", url |-> NoUrl,
        legs |-> SerpapiLegs(p).legs]
  ELSE [exc |-> build_gf_url(SerpapiArgs(p)).exc,
        err |-> build_gf_url(SerpapiArgs(p)).err,
        url |-> build_gf_url(SerpapiArgs(p)).url,
        legs |-> SerpapiLegs(p).legs]

\* The number a code stands for, given as a number or as its one-digit text.
CodeNumber(v) == IF IsInt(v) THEN v.int ELSE DigitVal(v.str[1])

\* The dictionary a caller hands to build_gf_url_from_serpapi for the trip
\* of request r: the parameters that are set, the trip-type code and the
\* cabin code as numbers.
SerpapiParamsOf(r) ==
  [k \in {n \in {"type", "departure_id", "arrival_id", "outbound_date",
                 "return_date", "adults", "children", "travel_class", "hl", "gl",
                 "currency"} : r[n] # PyNone} |->
     IF k \in {"type", "travel_class"} THEN PyInt(CodeNumber(r[k])) ELSE r[k]]

\* One trip, with the trip-type code 1 or 2 given as a number or as text.
EntryInputs ==
  {[req |-> [DefaultRequest EXCEPT !.type = t, !.departure_id = PyStr(d),
                                   !.arrival_id = PyStr(MEL),
                                   !.outbound_date = PyStr(od), !.return_date = rd,
                                   !.travel_class = tc, !.adults = PyInt(ad)],
    caps |-> cp] :
     t \in {PyInt(1), PyInt(2), PyStr(Ch1), PyStr(Ch2)},
     d \in {SYD, SYD_LOWER},
     od \in {DATE_OUT, DATE_SHORT},
     rd \in {PyNone, PyStr(DATE_RET)},
     tc \in {PyNone, PyStr(Ch3)},
     ad \in {1, 2},
     cp \in {AllCaps, {}}}

EntryInit ==
  /\ \E inp \in EntryInputs : req = inp.req /\ caps = inp.caps
  /\ pc = "idle"
  /\ callNo = 1
  /\ cov_global_unmatched = << >>
  /\ legs_in = << >>
  /\ legs = << >>
  /\ deps = << >>
  /\ arrs = << >>
  /\ links = << >>
  /\ idx = 0
  /\ outcome = NoOutcome
  /\ history = << >>

\* One call of build_gf_url_from_serpapi: it returns the URL or raises.
FromSerpapiCall ==
  /\ pc = "idle"
  /\ callNo = 1
  /\ legs' = build_gf_url_from_serpapi(SerpapiParamsOf(req)).legs
  /\ outcome' =
       IF build_gf_url_from_serpapi(SerpapiParamsOf(req)).exc = "None"
       THEN Returned(build_gf_url_from_serpapi(SerpapiParamsOf(req)).url)
       ELSE Raised(build_gf_url_from_serpapi(SerpapiParamsOf(req)).exc,
                   build_gf_url_from_serpapi(SerpapiParamsOf(req)).err)
  /\ pc' = IF build_gf_url_from_serpapi(SerpapiParamsOf(req)).exc = "None"
           THEN "gf_done" ELSE "gf_raised"
  /\ UNCHANGED <<req, caps, callNo, cov_global_unmatched, legs_in, deps, arrs,
                 links, idx, history>>

\* The caller takes the outcome and goes on to SerpAPI.build_gf_urls with
\* the same request.
ThenBuildGfUrls ==
  /\ pc \in {"gf_done", "gf_raised"}
  /\ callNo = 1
  /\ history' = Append(history, outcome)
  /\ outcome' = NoOutcome
  /\ callNo' = callNo + 1
  /\ pc' = "idle"
  /\ UNCHANGED <<req, caps, cov_global_unmatched, legs_in, legs, deps, arrs,
                 links, idx>>

EntryNext == FromSerpapiCall \/ ThenBuildGfUrls \/ Call \/ SpPair \/ SpReturn

EntrySpec == EntryInit /\ [][EntryNext]_vars

(***************************************************************************)
(* Reading a result.                                                       *)
(***************************************************************************)
IsReturned == pc = "done" /\ outcome.kind = "returned"
IsRaised == pc = "raised" /\ outcome.kind = "raised"
ResultLinks == outcome.result.links
SinglePair == ~IsMultiCity(req)
\* The itinerary a link's token was built from.
Itinerary(link) == link.url.query[1][2].tfs
LegsOf(link) == Itinerary(link)["flight_data"]
\* The parameter names a coverage list mentions.
Names(entries) == {entries[i].name : i \in 1..Len(entries)}
\* The trimmed, non-empty codes of a comma-separated text, stated on the
\* text itself: the pieces between commas that hold a non-blank character.
CodesOf(v) ==
  IF v = PyNone THEN << >>
  ELSE SelectSeq([i \in 1..Len(SplitComma(v.str)) |-> Strip(SplitComma(v.str)[i])],
                 LAMBDA c : Len(c) > 0)
Distinct(codes) == Cardinality(Range(codes))

(***************************************************************************)
(* C1.  As stated: a single-pair request that returns has exactly          *)
(* |origin set| x |destination set| links, the sets being the sets of      *)
(* trimmed non-empty codes.  A code written twice is one element of the    *)
(* set but gives a link each time.                                         *)
(***************************************************************************)
C1_LinkCountOfSets ==
  (IsReturned /\ SinglePair) =>
    Len(ResultLinks) = Distinct(CodesOf(req.departure_id))
                       * Distinct(CodesOf(req.arrival_id))

\* C1 as amended: the number of links of a single-pair request that returns
\* is the number of trimmed non-empty origin codes times the number of
\* trimmed non-empty destination codes, a repeated code counted each time.
C1_LinkCountOfLists ==
  (IsReturned /\ SinglePair) =>
    Len(ResultLinks) = Len(CodesOf(req.departure_id)) * Len(CodesOf(req.arrival_id))

C1_Witness ==
  /\ IsReturned /\ SinglePair
  /\ Len(CodesOf(req.departure_id)) >= 2
  /\ Len(CodesOf(req.arrival_id)) >= 2
  /\ Distinct(CodesOf(req.departure_id)) = 1

(***************************************************************************)
(* C2.  In every link of every result the parameter names of encoded,      *)
(* approximated and unmatched are pairwise disjoint (so no entry is in two *)
(* of them), whatever the encoder accepts or rejects.                      *)
(***************************************************************************)
C2_CoverageDisjoint ==
  IsReturned =>
    \A i \in 1..Len(ResultLinks) :
      LET c == ResultLinks[i].coverage
      IN  /\ Names(c.encoded) \cap Names(c.approximated) = {}
          /\ Names(c.encoded) \cap Names(c.unmatched) = {}
          /\ Names(c.approximated) \cap Names(c.unmatched) = {}

C2_Witness ==
  /\ IsReturned
  /\ \E i \in 1..Len(ResultLinks) :
       /\ Len(ResultLinks[i].coverage.encoded) > 4
       /\ ResultLinks[i].coverage.approximated # << >>
       /\ ResultLinks[i].coverage.unmatched # << >>

(***************************************************************************)
(* C3.  As stated: in every link, every filter parameter the caller        *)
(* supplied (a value other than None and "") is named by exactly one of    *)
(* the link's encoded, approximated and unmatched lists.  An entry names   *)
(* the parameter it was derived from: the window entries name              *)
(* outbound_times and return_times.                                        *)
(***************************************************************************)
ParameterOf(name) ==
  CASE name \in {"dep_time_window", "arr_time_window"} -> {"outbound_times"}
    [] name = "dep_time_windows/arr_time_windows" -> {"outbound_times", "return_times"}
    [] OTHER -> {name}
Mentions(entries, param) ==
  \E i \in 1..Len(entries) : param \in ParameterOf(entries[i].name)
FilterParameters ==
  {"travel_class", "stops", "include_airlines", "exclude_airlines",
   "outbound_times", "return_times"}
Supplied(param) == req[param] # PyNone /\ req[param] # PyStr(<< >>)
ListsMentioning(c, param) ==
  (IF Mentions(c.encoded, param) THEN 1 ELSE 0)
  + (IF Mentions(c.approximated, param) THEN 1 ELSE 0)
  + (IF Mentions(c.unmatched, param) THEN 1 ELSE 0)

C3_SuppliedInExactlyOneList ==
  IsReturned =>
    \A i \in 1..Len(ResultLinks) : \A param \in FilterParameters :
      Supplied(param) => ListsMentioning(ResultLinks[i].coverage, param) = 1

(***************************************************************************)
(* C4.  As stated: every field named by an entry of the global unmatched   *)
(* list or of a link's unmatched list is a key of serpapi_fallback, with   *)
(* the value the caller supplied.  The multi-city entry names              *)
(* multi_city_json and the window entries name outbound_times.             *)
(***************************************************************************)
FieldOf(name) ==
  CASE name = "multi-city" -> "multi_city_json"
    [] name \in {"dep_time_window", "arr_time_window"} -> "outbound_times"
    [] OTHER -> name
UnmatchedNames ==
  Names(outcome.result.unmatched_global)
  \cup UNION {Names(ResultLinks[i].coverage.unmatched) : i \in 1..Len(ResultLinks)}

C4_UnmatchedInFallback ==
  IsReturned =>
    \A name \in UnmatchedNames :
      /\ FieldOf(name) \in DOMAIN outcome.result.serpapi_fallback
      /\ outcome.result.serpapi_fallback[FieldOf(name)] = req[FieldOf(name)]

(***************************************************************************)
(* C5.  Every round-trip itinerary has exactly two legs, the second the    *)
(* mirror of the first; leg 1 carries the outbound date and leg 2 the      *)
(* return date; and link k of the expansion is the itinerary of pair k.    *)
(***************************************************************************)
C5_RoundTripMirrored ==
  IsReturned =>
    \A i \in 1..Len(ResultLinks) :
      Itinerary(ResultLinks[i])["trip"] = "round-trip" =>
        LET l == LegsOf(ResultLinks[i])
            nArr == Len(CodesOf(req.arrival_id))
        IN  /\ Len(l) = 2
            /\ l[2].from_airport = l[1].to_airport
            /\ l[2].to_airport = l[1].from_airport
            /\ l[1].date = req.outbound_date
            /\ l[2].date = req.return_date
            /\ l[1].from_airport = CodesOf(req.departure_id)[((i - 1) \div nArr) + 1]
            /\ l[1].to_airport = CodesOf(req.arrival_id)[((i - 1) % nArr) + 1]

C5_Witness ==
  /\ IsReturned
  /\ Len(ResultLinks) >= 4
  /\ \A i \in 1..Len(ResultLinks) : Itinerary(ResultLinks[i])["trip"] = "round-trip"
  /\ LegsOf(ResultLinks[1])[1].from_airport # LegsOf(ResultLinks[1])[1].to_airport

(***************************************************************************)
(* C6.  A feature the encoder rejects never aborts the call: no call ends  *)
(* with the encoder's TypeError, and in every result each rejected feature *)
(* that was offered to the encoder shows up: a rejected airline list as an *)
(* unmatched entry of every link (single-pair) or of the global list       *)
(* (multi-city), a rejected single window as an unmatched entry of every   *)
(* link of a single-pair request (the multi-city branch offers no window   *)
(* to the encoder), rejected per-leg arrays as an approximated entry of    *)
(* every round-trip link, and rejected multi-city as a global unmatched    *)
(* entry.                                                                  *)
(***************************************************************************)
AskedAirlines(key) == CodesOf(req[key]) # << >>
InEveryLinkUnmatched(name) ==
  \A i \in 1..Len(ResultLinks) : name \in Names(ResultLinks[i].coverage.unmatched)

C6_RejectionNeverAborts ==
  /\ IsRaised => outcome.exc # "TypeError"
  /\ IsReturned =>
       /\ \A key \in {"include_airlines", "exclude_airlines"} :
            (AskedAirlines(key) /\ key \notin caps) =>
              IF SinglePair THEN InEveryLinkUnmatched(key)
              ELSE key \in Names(outcome.result.unmatched_global)
       /\ (SinglePair /\ _parse_time_window(req.outbound_times)[1] # PyNone
           /\ "dep_time_window" \notin caps) =>
            InEveryLinkUnmatched("dep_time_window")
       /\ (SinglePair /\ _parse_time_window(req.outbound_times)[2] # PyNone
           /\ "arr_time_window" \notin caps) =>
            InEveryLinkUnmatched("arr_time_window")
       /\ (_parse_time_window(req.return_times)[1] # PyNone
           /\ "per_leg_windows" \notin caps) =>
            \A i \in 1..Len(ResultLinks) :
              Itinerary(ResultLinks[i])["trip"] = "round-trip" =>
                "return_times" \in Names(ResultLinks[i].coverage.approximated)
       /\ (~SinglePair /\ "multi-city" \notin caps) =>
            "multi-city" \in Names(outcome.result.unmatched_global)

C6_Witness ==
  /\ IsReturned /\ caps = {}
  /\ \E i \in 1..Len(ResultLinks) :
       /\ Len(ResultLinks[i].coverage.unmatched) = 4
       /\ Len(ResultLinks[i].coverage.approximated) = 1

(***************************************************************************)
(* C7.  As stated: when any origin or destination code fails the           *)
(* place-code grammar, or any supplied date is not a date of the calendar  *)
(* in ISO form, the call ends with a validation error and no result.       *)
(***************************************************************************)
BadCode(v) == v # PyNone /\ \E i \in 1..Len(CodesOf(v)) : ~_is_airport_or_place(CodesOf(v)[i])
BadDate(v) == v # PyNone /\ v # PyStr(<< >>) /\ ~FromIsoFormatOk(v.str)
BadLeg(leg) ==
  IsLegObj(leg) /\ (BadCode(leg.obj.departure_id) \/ BadCode(leg.obj.arrival_id)
                    \/ BadDate(leg.obj.date))
HasInvalidCodeOrDate ==
  IF SinglePair
  THEN \/ BadCode(req.departure_id) \/ BadCode(req.arrival_id)
       \/ BadDate(req.outbound_date) \/ BadDate(req.return_date)
  ELSE /\ IsJsonText(req.multi_city_json)
       /\ \E i \in 1..Len(req.multi_city_json.items) :
            BadLeg(req.multi_city_json.items[i])

C7_InvalidCodeOrDateFails ==
  (pc \in {"done", "raised"} /\ HasInvalidCodeOrDate) =>
    (IsRaised /\ outcome.exc = "ValueError")

(***************************************************************************)
(* C8.  The call ends with ValueError, and returns no links, when: the     *)
(* origin list or the destination list is empty, the outbound date is      *)
(* missing, round trip is asked for without a return date (single-pair     *)
(* requests); the leg list is empty, a leg lacks its origin, destination   *)
(* or date, or the payload is no JSON array (multi-city requests).         *)
(***************************************************************************)
Missing(v) == v = PyNone \/ v = PyStr(<< >>)
LegLacksField(leg) ==
  IsLegObj(leg) /\ (Missing(leg.obj.departure_id) \/ Missing(leg.obj.arrival_id)
                    \/ Missing(leg.obj.date))
InvalidRequestCase ==
  IF SinglePair
  THEN \/ CodesOf(req.departure_id) = << >>
       \/ CodesOf(req.arrival_id) = << >>
       \/ Missing(req.outbound_date)
       \/ (req.type = PyStr(Ch1) /\ Missing(req.return_date))
  ELSE \/ Missing(req.multi_city_json)
       \/ req.multi_city_json.json \in {"malformed", "object"}
       \/ req.multi_city_json.items = << >>
       \/ \E i \in 1..Len(req.multi_city_json.items) :
            LegLacksField(req.multi_city_json.items[i])

C9_Idempotent ==
  /\ \A i, j \in 1..Len(history) : history[i] = history[j]
  /\ (pc \in {"done", "raised"} /\ history # << >>) => outcome = history[1]

C9_Witness ==
  /\ IsReturned /\ Len(history) >= 1
  /\ Len(ResultLinks) >= 2
  /\ outcome.result.unmatched_global # << >>

(***************************************************************************)
(* C10.  In a single-pair result the link of (origin i, destination j) is  *)
(* at position (i - 1) * |destinations| + j: destinations are iterated     *)
(* inside origins, each list in the caller's order.                        *)
(***************************************************************************)
C10_CartesianOrder ==
  (IsReturned /\ SinglePair) =>
    LET origins == CodesOf(req.departure_id)
        dests == CodesOf(req.arrival_id)
    IN  \A i \in 1..Len(origins) : \A j \in 1..Len(dests) :
          LET k == (i - 1) * Len(dests) + j
          IN  /\ k <= Len(ResultLinks)
              /\ LegsOf(ResultLinks[k])[1].from_airport = origins[i]
              /\ LegsOf(ResultLinks[k])[1].to_airport = dests[j]

C10_Witness ==
  /\ IsReturned /\ SinglePair
  /\ Distinct(CodesOf(req.departure_id)) >= 2
  /\ Distinct(CodesOf(req.arrival_id)) >= 2
  /\ LegsOf(ResultLinks[2])[1].from_airport = LegsOf(ResultLinks[1])[1].from_airport
  /\ LegsOf(ResultLinks[2])[1].to_airport # LegsOf(ResultLinks[1])[1].to_airport

(***************************************************************************)
(* C11.  As stated: in every result, each advanced field the caller        *)
(* supplied (a value other than None) is named in the global unmatched     *)
(* list, is a key of the fallback mapping with the supplied value, and is  *)
(* named in no link's encoded or approximated list.                        *)
(***************************************************************************)
AdvancedFields ==
  {"bags", "max_price", "sort_by", "emissions", "layover_duration",
   "exclude_conns", "max_duration", "deep_search", "show_hidden",
   "departure_token", "booking_token"}
InFallback(field) ==
  /\ field \in DOMAIN outcome.result.serpapi_fallback
  /\ outcome.result.serpapi_fallback[field] = req[field]
InNoLinkEncodedOrApproximated(field) ==
  \A i \in 1..Len(ResultLinks) :
    field \notin Names(ResultLinks[i].coverage.encoded)
                 \cup Names(ResultLinks[i].coverage.approximated)

C11_AdvancedFieldReported ==
  IsReturned =>
    \A field \in AdvancedFields :
      req[field] # PyNone =>
        /\ field \in Names(outcome.result.unmatched_global)
        /\ InFallback(field)
        /\ InNoLinkEncodedOrApproximated(field)

(***************************************************************************)
(* C12.  A multi-city request of N legs that returns under an encoder      *)
(* rejecting multi-city has exactly N - 1 links; link i is a one-way       *)
(* itinerary of the single leg i of the request, with no return leg and    *)
(* no time window, and the global unmatched list has the multi-city        *)
(* entry.                                                                  *)
(***************************************************************************)
WindowKeys ==
  {"dep_time_window", "arr_time_window", "dep_time_windows", "arr_time_windows"}
RequestLegs == req.multi_city_json.items
IsOneWayOfLeg(link, leg) ==
  /\ Itinerary(link)["trip"] = "one-way"
  /\ LegsOf(link) = <<[date |-> leg.obj.date,
                       from_airport |-> leg.obj.departure_id.str,
                       to_airport |-> leg.obj.arrival_id.str]>>
  /\ DOMAIN Itinerary(link) \cap WindowKeys = {}

C12_MultiCityFallbackLinks ==
  (IsReturned /\ ~SinglePair /\ "multi-city" \notin caps) =>
    /\ Len(ResultLinks) = Len(RequestLegs) - 1
    /\ \A i \in 1..Len(ResultLinks) : IsOneWayOfLeg(ResultLinks[i], RequestLegs[i])
    /\ \E i \in 1..Len(outcome.result.unmatched_global) :
         /\ outcome.result.unmatched_global[i].name = "multi-city"
         /\ outcome.result.unmatched_global[i].note = NoteMultiCity

C12_Witness ==
  /\ IsReturned /\ ~SinglePair /\ "multi-city" \notin caps
  /\ "dep_time_window" \in caps
  /\ req.outbound_times # PyNone
  /\ Len(RequestLegs) = 3
  /\ Len(ResultLinks) = 2

(***************************************************************************)
(* C13.  Trip kind of a single-pair request: without a return date and     *)
(* without a trip-type code every link is one-way with exactly one leg;    *)
(* with a return date and without a trip-type code every link is a round   *)
(* trip returning on that date; with a return date and the one-way code 2  *)
(* every link is one-way with one leg, and the call fails only for a       *)
(* fault of the codes or of the outbound date.                             *)
(***************************************************************************)
AllLinksOneWay ==
  /\ Len(ResultLinks) >= 1
  /\ \A i \in 1..Len(ResultLinks) :
       /\ Itinerary(ResultLinks[i])["trip"] = "one-way"
       /\ Len(LegsOf(ResultLinks[i])) = 1
AllLinksRoundTrip ==
  /\ Len(ResultLinks) >= 1
  /\ \A i \in 1..Len(ResultLinks) :
       /\ Itinerary(ResultLinks[i])["trip"] = "round-trip"
       /\ Len(LegsOf(ResultLinks[i])) = 2
       /\ LegsOf(ResultLinks[i])[2].date = req.return_date
FaultOutsideReturnDate ==
  \/ BadCode(req.departure_id) \/ BadCode(req.arrival_id)
  \/ CodesOf(req.departure_id) = << >> \/ CodesOf(req.arrival_id) = << >>
  \/ Missing(req.outbound_date) \/ BadDate(req.outbound_date)

C13_TripKindResolved ==
  SinglePair =>
    /\ (IsReturned /\ req.type = PyNone /\ Missing(req.return_date)) => AllLinksOneWay
    /\ (IsReturned /\ req.type = PyNone /\ ~Missing(req.return_date)) => AllLinksRoundTrip
    /\ (req.type = PyStr(Ch2) /\ ~Missing(req.return_date)) =>
         /\ IsReturned => AllLinksOneWay
         /\ IsRaised => FaultOutsideReturnDate

C13_Witness ==
  /\ IsReturned /\ SinglePair
  /\ req.type = PyStr(Ch2)
  /\ req.return_date = PyStr(DATE_RET)
  /\ AllLinksOneWay

(***************************************************************************)
(* C14.  _parse_time_window gives ((a,b), None) for a text of exactly two  *)
(* comma-separated integers a,b, ((a,b),(c,d)) for exactly four integers   *)
(* a,b,c,d, and (None, None) for every other input: no text, any other     *)
(* number of items, or an item that is no integer.  It always returns.     *)
(* The items and the integers are read here off the text itself: the       *)
(* runs between commas, and sign, digits and place values.                 *)
(***************************************************************************)
CommaPositions(s) == {i \in 1..Len(s) : s[i] = ","}
ItemCount(s) == Cardinality(CommaPositions(s)) + 1
\* The position of the comma that closes item k (Len + 1 for the last item).
ItemEnd(s, k) ==
  IF k = ItemCount(s) THEN Len(s) + 1
  ELSE CHOOSE i \in CommaPositions(s) :
         Cardinality({j \in CommaPositions(s) : j <= i}) = k
ItemStart(s, k) == IF k = 1 THEN 1 ELSE ItemEnd(s, k - 1) + 1
ItemText(s, k) == SubSeq(s, ItemStart(s, k), ItemEnd(s, k) - 1)
\* The text without its blanks at both ends.
Inner(t) ==
  LET solid == {i \in 1..Len(t) : t[i] # " "}
  IN  IF solid = {} THEN << >>
      ELSE SubSeq(t, CHOOSE i \in solid : \A j \in solid : i <= j,
                     CHOOSE i \in solid : \A j \in solid : i >= j)
Unsigned(t) == IF t # << >> /\ t[1] \in {"+", "-"} THEN Tail(t) ELSE t
IsIntegerText(t) ==
  /\ Unsigned(Inner(t)) # << >>
  /\ \A i \in 1..Len(Unsigned(Inner(t))) :
       Unsigned(Inner(t))[i] \in {"0", "1", "2", "3", "4", "5", "6", "7", "8", "9"}
RECURSIVE PlaceValue(_, _)
PlaceValue(ds, i) ==
  IF i > Len(ds) THEN 0
  ELSE (CHOOSE d \in 0..9 : ToString(d) = ds[i]) * (10 ^ (Len(ds) - i))
       + PlaceValue(ds, i + 1)
IntegerOf(t) ==
  IF Inner(t)[1] = "-" THEN 0 - PlaceValue(Unsigned(Inner(t)), 1)
  ELSE PlaceValue(Unsigned(Inner(t)), 1)
AllIntegers(s) == \A k \in 1..ItemCount(s) : IsIntegerText(ItemText(s, k))
WindowOf(s, k) == PyTuple(<<IntegerOf(ItemText(s, k)), IntegerOf(ItemText(s, k + 1))>>)
ExpectedWindows(win) ==
  IF win = PyNone \/ win = PyStr(<< >>) THEN <<PyNone, PyNone>>
  ELSE IF ~AllIntegers(win.str) THEN <<PyNone, PyNone>>
  ELSE IF ItemCount(win.str) = 2 THEN <<WindowOf(win.str, 1), PyNone>>
  ELSE IF ItemCount(win.str) = 4 THEN <<WindowOf(win.str, 1), WindowOf(win.str, 3)>>
  ELSE <<PyNone, PyNone>>

C14_ParseTimeWindow ==
  /\ pc = "parsed" =>
       /\ outcome.kind = "returned"
       /\ outcome.result = ExpectedWindows(req.outbound_times)
  /\ pc \in {"idle", "parsed"}

C14_Witness ==
  /\ pc = "parsed"
  /\ req.outbound_times =
       PyStr(<<"-", "3", ",", " ", "8", " ", ",", "1", "8", ",", "6">>)
  /\ outcome.result = <<PyTuple(<<-3, 8>>), PyTuple(<<18, 6>>)>>

(***************************************************************************)
(* C15.  As stated: a supplied code outside its table (travel_class        *)
(* outside 1-4, stops outside 0-3, type outside 1-3) never makes the call  *)
(* fail, and in the result the parameter that carries it is named by an    *)
(* unmatched entry of every link or of the global list.                    *)
(***************************************************************************)
KnownCodes(param) ==
  CASE param = "travel_class" -> {PyStr(Ch1), PyStr(Ch2), PyStr(Ch3), PyStr(Ch4)}
    [] param = "stops" -> {PyStr(Ch0), PyStr(Ch1), PyStr(Ch2), PyStr(Ch3)}
    [] param = "type" -> {PyStr(Ch1), PyStr(Ch2), PyStr(Ch3)}
Unrecognized(param) == ~Missing(req[param]) /\ req[param] \notin KnownCodes(param)
RecordedUnmatched(param) ==
  \/ param \in Names(outcome.result.unmatched_global)
  \/ /\ Len(ResultLinks) >= 1
     /\ \A i \in 1..Len(ResultLinks) :
          param \in Names(ResultLinks[i].coverage.unmatched)

C15_UnrecognizedCodeUnmatched ==
  \A param \in {"travel_class", "stops", "type"} :
    Unrecognized(param) =>
      /\ IsRaised => (InvalidRequestCase \/ HasInvalidCodeOrDate)
      /\ IsReturned => RecordedUnmatched(param)

(***************************************************************************)
(* C16.  The mapping build_serpapi_params returns has as keys exactly      *)
(* 'engine' and the allow-listed names whose supplied value is not None,   *)
(* not "" and not []; a kept value is the supplied value, except that a    *)
(* list of airlines becomes the text of its items separated by commas;     *)
(* 'engine' has the supplied value when one was kept and google_flights    *)
(* otherwise.                                                              *)
(***************************************************************************)
KeptNames(kwargs) ==
  {k \in DOMAIN kwargs \cap Allowed :
     kwargs[k] \notin {PyNone, PyStr(<< >>), PyList(<< >>)}}
IsCommaJoined(text, items) ==
  /\ IsStr(text)
  /\ ItemCount(text.str) = Len(items)
  /\ \A k \in 1..Len(items) : ItemText(text.str, k) = items[k]
KeptValueOk(kwargs, result, k) ==
  IF k \in {"include_airlines", "exclude_airlines"} /\ IsList(kwargs[k])
  THEN IsCommaJoined(result[k], kwargs[k].list)
  ELSE result[k] = kwargs[k]

C16_FallbackMappingShape ==
  pc = "params" =>
    /\ DOMAIN outcome.result = KeptNames(req) \cup {"engine"}
    /\ \A k \in KeptNames(req) : KeptValueOk(req, outcome.result, k)
    /\ "engine" \notin KeptNames(req) =>
         outcome.result["engine"] = PyStr(GOOGLE_FLIGHTS)

C16_Witness ==
  /\ pc = "params"
  /\ "engine" \notin DOMAIN req
  /\ "links" \in DOMAIN req
  /\ "include_airlines" \in DOMAIN req /\ IsList(req["include_airlines"])
  /\ Len(req["include_airlines"].list) = 2
  /\ "bags" \in DOMAIN req /\ req["bags"] = PyInt(0)
  /\ DOMAIN outcome.result = {"engine", "include_airlines", "bags"}

(***************************************************************************)
(* C17.  Every link URL is the fixed base path followed by exactly four    *)
(* query parameters in the order tfs, hl, gl, curr.  Each value is         *)
(* escaped: it is made of unreserved characters, "+" for a blank and       *)
(* "%XY" codes only, and undoing the escapes gives the encoder's token     *)
(* text and the request's hl, gl and currency.                             *)
(***************************************************************************)
HexDigits ==
  {"0", "1", "2", "3", "4", "5", "6", "7", "8", "9", "A", "B", "C", "D", "E", "F"}
\* The character of an ASCII code written as two hexadecimal digits.
AsciiOf(h) ==
  CASE h = <<"2", "F">> -> "/"
    [] h = <<"2", "C">> -> ","
    [] h = <<"2", "6">> -> "&"
    [] h = <<"3", "D">> -> "="
    [] h = <<"2", "B">> -> "+"
    [] h = <<"2", "5">> -> "%"
    [] h = <<"3", "F">> -> "?"
    [] h = <<"2", "3">> -> "#"
    [] h = <<"2", "0">> -> " "
    [] OTHER -> "other"
IsPlainChar(c) ==
  \/ c \in {"_", ".", "-", "~"}
  \/ c \in {"0", "1", "2", "3", "4", "5", "6", "7", "8", "9"}
  \/ c \in UpperChars \/ c \in LowerChars
\* Position i of s starts an escape "%XY".
EscapeAt(s, i) ==
  /\ s[i] = "%" /\ i + 2 <= Len(s)
  /\ s[i + 1] \in HexDigits /\ s[i + 2] \in HexDigits
\* Position i of s is one of the two hexadecimal digits of an escape.
InsideEscape(s, i) ==
  \/ (i >= 2 /\ EscapeAt(s, i - 1))
  \/ (i >= 3 /\ EscapeAt(s, i - 2) /\ ~(EscapeAt(s, i - 1)))
FullyEscaped(s) ==
  \A i \in 1..Len(s) :
    IsPlainChar(s[i]) \/ s[i] = "+" \/ EscapeAt(s, i) \/ InsideEscape(s, i)
RECURSIVE Unescape(_)
Unescape(s) ==
  IF s = << >> THEN << >>
  ELSE IF s[1] = "+" THEN <<" ">> \o Unescape(Tail(s))
  ELSE IF EscapeAt(s, 1)
    THEN <<AsciiOf(SubSeq(s, 2, 3))>> \o Unescape(SubSeq(s, 4, Len(s)))
  ELSE <<s[1]>> \o Unescape(Tail(s))
Carries(escaped, text) == FullyEscaped(escaped) /\ Unescape(escaped) = text
UrlShapeOk(url) ==
  /\ url.base = "https://www.google.com/travel/flights?"
  /\ Len(url.query) = 4
  /\ <<url.query[1][1], url.query[2][1], url.query[3][1], url.query[4][1]>>
       = <<"tfs", "hl", "gl", "curr">>
  /\ Carries(url.query[1][2].text, TokenText)
  /\ Carries(url.query[2][2], req.hl.str)
  /\ Carries(url.query[3][2], req.gl.str)
  /\ Carries(url.query[4][2], req.currency.str)

C17_UrlShape ==
  IsReturned => \A i \in 1..Len(ResultLinks) : UrlShapeOk(ResultLinks[i].url)

C17_Witness ==
  /\ IsReturned /\ ~SinglePair /\ caps = {}
  /\ Len(ResultLinks) = 2
  /\ req.hl = PyStr(<<"e", " ", "n", "&", "x", "=", "1">>)
  /\ req.currency = PyStr(<<"U", "+", "%", "2", "6">>)
  /\ ResultLinks[2].url.query[4][2] = <<"U", "%", "2", "B", "%", "2", "5", "2", "6">>

(***************************************************************************)
(* C18.  The global unmatched list of every result is in strictly          *)
(* ascending order, hence without a duplicate, on the single-pair and the  *)
(* multi-city path.  An entry is the text "name (note)"; the blank after   *)
(* the name is below every character of a name, so the order of two        *)
(* entries is the dictionary order of their names, compared here character *)
(* by character.                                                           *)
(***************************************************************************)
NameChars(name) ==
  CASE name = "bags" -> <<"b", "a", "g", "s">>
    [] name = "booking_token" ->
         <<"b", "o", "o", "k", "i", "n", "g", "_", "t", "o", "k", "e", "n">>
    [] name = "deep_search" -> <<"d", "e", "e", "p", "_", "s", "e", "a", "r", "c", "h">>
    [] name = "departure_token" ->
         <<"d", "e", "p", "a", "r", "t", "u", "r", "e", "_", "t", "o", "k", "e", "n">>
    [] name = "emissions" -> <<"e", "m", "i", "s", "s", "i", "o", "n", "s">>
    [] name = "exclude_airlines" ->
         <<"e", "x", "c", "l", "u", "d", "e", "_", "a", "i", "r", "l", "i", "n", "e", "s">>
    [] name = "exclude_conns" ->
         <<"e", "x", "c", "l", "u", "d", "e", "_", "c", "o", "n", "n", "s">>
    [] name = "include_airlines" ->
         <<"i", "n", "c", "l", "u", "d", "e", "_", "a", "i", "r", "l", "i", "n", "e", "s">>
    [] name = "layover_duration" ->
         <<"l", "a", "y", "o", "v", "e", "r", "_", "d", "u", "r", "a", "t", "i", "o", "n">>
    [] name = "max_duration" ->
         <<"m", "a", "x", "_", "d", "u", "r", "a", "t", "i", "o", "n">>
    [] name = "max_price" -> <<"m", "a", "x", "_", "p", "r", "i", "c", "e">>
    [] name = "multi-city" -> <<"m", "u", "l", "t", "i", "-", "c", "i", "t", "y">>
    [] name = "show_hidden" -> <<"s", "h", "o", "w", "_", "h", "i", "d", "d", "e", "n">>
    [] name = "sort_by" -> <<"s", "o", "r", "t", "_", "b", "y">>
\* The characters of the names in the order of their codes.
CodeOrder ==
  <<"-", "_", "a", "b", "c", "d", "e", "f", "g", "h", "i", "j", "k", "l", "m",
    "n", "o", "p", "q", "r", "s", "t", "u", "v", "w", "x", "y", "z">>
CodeRank(c) == CHOOSE i \in 1..Len(CodeOrder) : CodeOrder[i] = c
RECURSIVE DictionaryLess(_, _)
DictionaryLess(s, t) ==
  IF t = << >> THEN FALSE
  ELSE IF s = << >> THEN TRUE
  ELSE IF s[1] = t[1] THEN DictionaryLess(Tail(s), Tail(t))
  ELSE CodeRank(s[1]) < CodeRank(t[1])
GlobalList == outcome.result.unmatched_global

C18_GlobalSortedNoDuplicate ==
  IsReturned =>
    \A i, j \in 1..Len(GlobalList) :
      i < j => DictionaryLess(NameChars(GlobalList[i].name),
                              NameChars(GlobalList[j].name))

C18_Witness ==
  /\ IsReturned /\ ~SinglePair /\ "multi-city" \notin caps
  /\ Names(GlobalList) =
       {"bags", "exclude_airlines", "include_airlines", "multi-city"}
  /\ Len(GlobalList) = 4

(***************************************************************************)
(* C19.  As stated: a URL that gfurl.build_gf_url returns is               *)
(* https://www.google.com/travel/flights with the query parameters tfs,    *)
(* hl, gl and curr all present, and hl, gl and curr carry the supplied     *)
(* values.                                                                 *)
(***************************************************************************)
GfReturned == pc = "gf_done" /\ outcome.kind = "returned"
GfRaised == pc = "gf_raised" /\ outcome.kind = "raised"
GfParamNames == {outcome.result.query[i][1] : i \in 1..Len(outcome.result.query)}
GfParamCarries(name, text) ==
  \E i \in 1..Len(outcome.result.query) :
    /\ outcome.result.query[i][1] = name
    /\ Unescape(outcome.result.query[i][2]) = text

C19_GfUrlStructure ==
  GfReturned =>
    /\ outcome.result.base = "https://www.google.com/travel/flights"
    /\ {"tfs", "hl", "gl", "curr"} \subseteq GfParamNames
    /\ GfParamCarries("hl", req.hl)
    /\ GfParamCarries("gl", req.gl)
    /\ GfParamCarries("curr", req.currency)

(***************************************************************************)
(* C20.  As stated: gfurl.build_gf_url raises ValueError and returns no    *)
(* URL when the leg list is empty, a leg lacks 'from', 'to' or 'date', an  *)
(* airport code is not exactly three upper-case letters, a date is not in  *)
(* the form YYYY-MM-DD, the cabin class is not one of the four names, or   *)
(* the stops value is not one of the four names.                           *)
(***************************************************************************)
IsThreeUpperLetters(code) ==
  /\ Len(code) = 3
  /\ \A i \in 1..3 : code[i] \in
       {"A", "B", "C", "D", "E", "F", "G", "H", "I", "J", "K", "L", "M", "N",
        "O", "P", "Q", "R", "S", "T", "U", "V", "W", "X", "Y", "Z"}
IsYearMonthDayForm(s) ==
  /\ Len(s) = 10
  /\ s[5] = "-" /\ s[8] = "-"
  /\ \A i \in {1, 2, 3, 4, 6, 7, 9, 10} :
       s[i] \in {"0", "1", "2", "3", "4", "5", "6", "7", "8", "9"}
GfLegInvalid(leg) ==
  \/ ~({"from", "to", "date"} \subseteq DOMAIN leg)
  \/ ~IsThreeUpperLetters(leg["from"])
  \/ ~IsThreeUpperLetters(leg["to"])
  \/ ~IsYearMonthDayForm(leg["date"])
GfInvalidRequest ==
  \/ req.legs = << >>
  \/ \E i \in 1..Len(req.legs) : GfLegInvalid(req.legs[i])
  \/ req.cabin \notin {"ECONOMY", "PREMIUM_ECONOMY", "BUSINESS", "FIRST"}
  \/ req.stops \notin {"ANY", "NONSTOP", "MAX_1", "MAX_2"}

C20_GfInvalidRequestRaises ==
  (pc # "idle" /\ GfInvalidRequest) => (GfRaised /\ outcome.exc = "ValueError")


(***************************************************************************)
(* C21.  In _build_single_url each optional field that is probed           *)
(* (include_airlines, exclude_airlines, dep_time_window, arr_time_window)  *)
(* is either accepted by the trial construction, and then it is in the     *)
(* itinerary of every later probe and of the final payload with the value  *)
(* probed and is recorded as encoded and not as unmatched; or rejected,    *)
(* and then the probe leaves the itinerary as it was, the final payload    *)
(* lacks the field, and the field is recorded as unmatched with the        *)
(* 'not supported by installed' annotation, never with 'no URL             *)
(* equivalent', and not as encoded.  Stated for every link that            *)
(* _build_single_url built: the links of a single-pair request and of the  *)
(* multi-city fallback.                                                    *)
(***************************************************************************)
ProbeOrder ==
  <<"include_airlines", "exclude_airlines", "dep_time_window", "arr_time_window">>
BuiltBySingleUrl == SinglePair \/ "multi-city" \notin caps
\* The arguments _build_single_url had for link i.
LinkArgs(i) ==
  IF SinglePair
  THEN SingleArgs(req, Product(deps, arrs)[i][1], Product(deps, arrs)[i][2])
  ELSE FallbackArgs(req, legs[i])
ProbeValue(a, k) ==
  CASE k = 1 -> a.include_airlines
    [] k = 2 -> a.exclude_airlines
    [] k = 3 -> ExpectedWindows(a.outbound_times)[1]
    [] k = 4 -> ExpectedWindows(a.outbound_times)[2]
IsProbed(a, k) == IF k <= 2 THEN ProbeValue(a, k) # << >> ELSE ProbeValue(a, k) # PyNone
\* tfs_kwargs and cov after the first k probes.
ProbeStage(a, k) ==
  CASE k = 0 -> BeforeProbes(a)
    [] k = 1 -> ProbeAirlines(BeforeProbes(a), ProbeOrder[1], a.include_airlines, caps)
    [] k = 2 -> ProbeAirlines(
                  ProbeAirlines(BeforeProbes(a), ProbeOrder[1], a.include_airlines, caps),
                  ProbeOrder[2], a.exclude_airlines, caps)
    [] k = 3 -> ProbeWindow(
                  ProbeAirlines(
                    ProbeAirlines(BeforeProbes(a), ProbeOrder[1], a.include_airlines, caps),
                    ProbeOrder[2], a.exclude_airlines, caps),
                  ProbeOrder[3], OutboundWindows(a)[1], caps)
    [] k = 4 -> ProbeWindow(
                  ProbeWindow(
                    ProbeAirlines(
                      ProbeAirlines(BeforeProbes(a), ProbeOrder[1], a.include_airlines, caps),
                      ProbeOrder[2], a.exclude_airlines, caps),
                    ProbeOrder[3], OutboundWindows(a)[1], caps),
                  ProbeOrder[4], OutboundWindows(a)[2], caps)
    [] k = 5 -> AfterProbes(a, caps)
Holds(kw, key, value) == key \in DOMAIN kw /\ kw[key] = value
NotedAs(entries, key, note) ==
  \E n \in 1..Len(entries) : entries[n].name = key /\ entries[n].note = note
ProbeKept(link, a, k) ==
  /\ \A j \in k..5 : Holds(ProbeStage(a, j).kw, ProbeOrder[k], ProbeValue(a, k))
  /\ Holds(Itinerary(link), ProbeOrder[k], ProbeValue(a, k))
  /\ ProbeOrder[k] \in Names(link.coverage.encoded)
  /\ ProbeOrder[k] \notin Names(link.coverage.unmatched)
ProbeDropped(link, a, k) ==
  /\ ProbeStage(a, k).kw = ProbeStage(a, k - 1).kw
  /\ ProbeOrder[k] \notin DOMAIN Itinerary(link)
  /\ NotedAs(link.coverage.unmatched, ProbeOrder[k], NoteUnsupported)
  /\ ~NotedAs(link.coverage.unmatched, ProbeOrder[k], NoteNoUrl)
  /\ ProbeOrder[k] \notin Names(link.coverage.encoded)

C21_ProbeKeptOrDropped ==
  (IsReturned /\ BuiltBySingleUrl) =>
    \A i \in 1..Len(ResultLinks) : \A k \in 1..4 :
      IsProbed(LinkArgs(i), k) =>
        IF ProbeOrder[k] \in caps
        THEN ProbeKept(ResultLinks[i], LinkArgs(i), k)
        ELSE ProbeDropped(ResultLinks[i], LinkArgs(i), k)

\* A round trip where the airlines are accepted and the outbound departure
\* window is rejected, with the arrival window probed after it and accepted.
C21_Witness ==
  /\ IsReturned /\ SinglePair /\ Len(ResultLinks) >= 1
  /\ caps \cap {"include_airlines", "dep_time_window", "arr_time_window"}
       = {"include_airlines", "arr_time_window"}
  /\ \A k \in {1, 3, 4} : IsProbed(LinkArgs(1), k)
  /\ Holds(Itinerary(ResultLinks[1]), "arr_time_window", ProbeValue(LinkArgs(1), 4))
  /\ NotedAs(ResultLinks[1].coverage.unmatched, "dep_time_window", NoteUnsupported)


(***************************************************************************)
(* C22.  As stated: in a round-trip link of a request whose return time    *)
(* window parses, whenever the encoder rejects the paired (outbound,       *)
(* return) window arrays, the return window is recorded as approximated,   *)
(* and the outbound window of the request is in the final payload and is   *)
(* recorded as encoded.                                                    *)
(***************************************************************************)
PairedProbeRejected(link) ==
  /\ Itinerary(link)["trip"] = "round-trip"
  /\ ExpectedWindows(req.return_times)[1] # PyNone
  /\ "per_leg_windows" \notin caps
OutboundWindowRetained(link) ==
  /\ ExpectedWindows(req.outbound_times)[1] # PyNone =>
       /\ Holds(Itinerary(link), "dep_time_window", ExpectedWindows(req.outbound_times)[1])
       /\ "dep_time_window" \in Names(link.coverage.encoded)
  /\ ExpectedWindows(req.outbound_times)[2] # PyNone =>
       /\ Holds(Itinerary(link), "arr_time_window", ExpectedWindows(req.outbound_times)[2])
       /\ "arr_time_window" \in Names(link.coverage.encoded)

C22_PairedProbeRejected ==
  (IsReturned /\ SinglePair) =>
    \A i \in 1..Len(ResultLinks) :
      PairedProbeRejected(ResultLinks[i]) =>
        /\ NotedAs(ResultLinks[i].coverage.approximated, "return_times", NotePerLeg)
        /\ DOMAIN Itinerary(ResultLinks[i]) \cap {"dep_time_windows", "arr_time_windows"} = {}
        /\ OutboundWindowRetained(ResultLinks[i])


(***************************************************************************)
(* C23.  A multi-city request whose legs all pass validation, under an     *)
(* encoder that accepts multi-city construction, returns exactly one       *)
(* link; the itinerary handed to the encoder is tagged multi-city and its  *)
(* legs are the caller's legs (origin, destination, date), verbatim and    *)
(* in the caller's order.                                                  *)
(***************************************************************************)
CallerLeg(leg) ==
  [date |-> leg.obj.date, from_airport |-> leg.obj.departure_id.str,
   to_airport |-> leg.obj.arrival_id.str]

C23_MultiCityOneLink ==
  (IsReturned /\ ~SinglePair /\ "multi-city" \in caps) =>
    /\ Len(ResultLinks) = 1
    /\ Itinerary(ResultLinks[1])["trip"] = "multi-city"
    /\ Len(LegsOf(ResultLinks[1])) = Len(RequestLegs)
    /\ \A i \in 1..Len(RequestLegs) :
         LegsOf(ResultLinks[1])[i] = CallerLeg(RequestLegs[i])

C23_Witness ==
  /\ IsReturned /\ ~SinglePair /\ "multi-city" \in caps
  /\ Len(RequestLegs) = MaxLegs
  /\ Len(LegsOf(ResultLinks[1])) = MaxLegs
  /\ LegsOf(ResultLinks[1])[1] # LegsOf(ResultLinks[1])[MaxLegs]


(***************************************************************************)
(* C24.  As stated: on every path of build_gf_urls (single-pair,           *)
(* multi-city, multi-city fallback) each of the four passenger counts of   *)
(* the itinerary handed to the payload encoder is at least 0, a negative   *)
(* count of the caller being clamped to 0.                                 *)
(***************************************************************************)
PassengerFields == {"adults", "children", "infants_in_seat", "infants_on_lap"}
ClampedCount(n) == IF n < 0 THEN 0 ELSE n

C24_PassengerCountsClamped ==
  IsReturned =>
    \A i \in 1..Len(ResultLinks) : \A f \in PassengerFields :
      /\ Itinerary(ResultLinks[i])["passengers"][f] >= 0
      /\ Itinerary(ResultLinks[i])["passengers"][f] = ClampedCount(req[f].int)


(***************************************************************************)
(* C26.  As stated: when the encoder rejects multi-city construction,      *)
(* every leg the caller supplied, the last one included, is the single     *)
(* leg of some returned one-way link, so that no requested leg is missing  *)
(* from the list of links.                                                 *)
(***************************************************************************)
LegHasLink(leg) ==
  \E i \in 1..Len(ResultLinks) : LegsOf(ResultLinks[i]) = <<CallerLeg(leg)>>

C26_FallbackCoversEveryLeg ==
  (IsReturned /\ ~SinglePair /\ "multi-city" \notin caps) =>
    \A k \in 1..Len(RequestLegs) : LegHasLink(RequestLegs[k])

(***************************************************************************)
(* C27.  As stated: every call of build_gf_urls that returns has at least  *)
(* one link in its result, for a single-pair request and for a multi-city  *)
(* request of any number of valid legs, whether or not the encoder accepts *)
(* multi-city construction.                                                *)
(***************************************************************************)
C27_ReturnedLinksNonEmpty ==
  IsReturned => Len(ResultLinks) >= 1


(***************************************************************************)
(* C28.  A request that supplies multi_city_json is compiled as            *)
(* multi-city whatever its trip-type code: it never enters the             *)
(* single-pair branch, it fails only with the errors of the multi-city     *)
(* branch, and its result is the multi-city link or the fallback with the  *)
(* multi-city entry in the global list.  And two requests that differ      *)
(* only in departure_id, arrival_id, outbound_date, return_date,           *)
(* outbound_times and return_times end alike: both raise the same error,   *)
(* or both return the same links with the same coverage and the same       *)
(* global unmatched list.                                                  *)
(***************************************************************************)
SuppliesMultiCity == req.multi_city_json # PyNone /\ req.multi_city_json # PyStr(<< >>)
CompiledAsMultiCity ==
  /\ pc \notin {"sp_loop", "sp_return"}
  /\ deps = << >> /\ arrs = << >>
  /\ IsRaised => outcome.err \in {"multi_city_json", "leg", "code", "date"}
  /\ IsReturned =>
       IF "multi-city" \in caps
       THEN /\ Len(ResultLinks) = 1
            /\ Itinerary(ResultLinks[1])["trip"] = "multi-city"
       ELSE "multi-city" \in Names(outcome.result.unmatched_global)
SameOutcome(first, second) ==
  /\ first.kind = second.kind
  /\ first.kind = "raised" => (first.exc = second.exc /\ first.err = second.err)
  /\ first.kind = "returned" =>
       /\ first.result.links = second.result.links
       /\ first.result.unmatched_global = second.result.unmatched_global

C28_MultiCityIgnoresSinglePairFields ==
  SuppliesMultiCity =>
    /\ CompiledAsMultiCity
    /\ (pc \in {"done", "raised"} /\ Len(history) = 1) =>
         SameOutcome(history[1], outcome)

\* Two returning calls of the fallback whose requests differ in the six
\* fields, as their fallback mappings show.
C28_Witness ==
  /\ IsReturned /\ SuppliesMultiCity /\ Len(history) = 1
  /\ history[1].kind = "returned"
  /\ req.type = PyStr(Ch1)
  /\ Len(ResultLinks) >= 2
  /\ history[1].result.serpapi_fallback # outcome.result.serpapi_fallback
  /\ req.outbound_times # PyNone /\ "dep_time_window" \in caps


(***************************************************************************)
(* C29.  The outcome of gfurl.build_gf_url does not depend on              *)
(* include_airlines, exclude_airlines, dep_time_window or                  *)
(* arr_time_window: of two calls that differ only in these four            *)
(* arguments, both raise the same error or both return the same URL; and   *)
(* a call that returns hands back the URL alone, with the parameters q,    *)
(* hl, gl and curr and nothing that reports the filters as dropped.        *)
(***************************************************************************)
GfFilterless ==
  GfReturned =>
    /\ DOMAIN outcome.result = {"base", "query"}
    /\ [i \in 1..Len(outcome.result.query) |-> outcome.result.query[i][1]]
         = <<"q", "hl", "gl", "curr">>

Gpt2Returned == pc = "gpt2_done" /\ outcome.kind = "returned"
Gpt2Itinerary == outcome.result.url.query[1][2].tfs
IsMirrored(lgs) ==
  /\ Len(lgs) = 2
  /\ lgs[2]["from"] = lgs[1]["to"]
  /\ lgs[2]["to"] = lgs[1]["from"]

C25_Gpt2RoundTripMirrored ==
  Gpt2Returned =>
    /\ Gpt2Itinerary["trip"] = "round-trip" => IsMirrored(req.legs)
    /\ (Len(req.legs) = 2 /\ ~IsMirrored(req.legs)) =>
         Gpt2Itinerary["trip"] = "multi-city"


(***************************************************************************)
(* C30.  As stated: the trip-type code means the same in the two           *)
(* SerpApi-style entry points.  For one trip-type code (1 or 2), one       *)
(* origin and destination and the same dates, when                         *)
(* gfurl.build_gf_url_from_serpapi and SerpAPI.build_gf_urls both return,  *)
(* their itineraries have the same number of legs: one leg for a one-way   *)
(* trip, two mirrored legs for a round trip.                               *)
(***************************************************************************)
BothEntryPointsReturned ==
  /\ IsReturned /\ Len(history) = 1
  /\ history[1].kind = "returned"
  /\ Len(ResultLinks) = 1

C30_TripTypeCodeAgrees ==
  BothEntryPointsReturned =>
    /\ Len(LegsOf(ResultLinks[1])) = Len(legs)
    /\ Itinerary(ResultLinks[1])["trip"] = "round-trip" <=> Len(legs) = 2

=============================================================================
